---- MODULE Spec2Model ----
(***************************************************************************)
(* GovFleet Command: the dispatch state kept by the App component (trips,  *)
(* vehicles, users, incidents, incoming requests, audit log), the handlers *)
(* that change it, the driver client that calls them, the telemetry tick, *)
(* the AuditLogger and the AuthProvider of src/security, the RateLimiter   *)
(* and debounce utilities, and the WebSocket server of src/services.       *)
(*                                                                         *)
(* Units: etaMinutes is kept in tenths of a minute and map coordinates in  *)
(* tenths of a map unit, so the tick's 0.1 decrement and toFixed(1) are    *)
(* exact integer arithmetic.  Time is in milliseconds (Date.now()).        *)
(***************************************************************************)
EXTENDS Integers, Sequences, FiniteSets, TLC

\* ------------------------------------------------------------- bounds
\* Audit entries the ledger may hold before the model stops issuing logged
\* operations (the ledger starts with two entries).
MaxAuditLogs == 4
\* Telemetry ticks in one behaviour.
MaxTicks == 1
\* Milliseconds the clock may advance in one behaviour.
MaxClockAdvance == 1
\* Audit entries the ledger may hold in the specification of the incident
\* handlers called on their own.
MaxDeskLogs == 5
\* Telemetry ticks in one behaviour of the specification of the tick's draws.
MaxMotionTicks == 3
\* Audit entries the ledger may hold in the specification of the trip
\* handlers called on their own.
MaxCoordinatorLogs == 5
\* Telemetry ticks, and dispatches between them, in the telemetry
\* specification.
MaxTelemetryTicks == 125
MaxTelemetryDispatches == 1
\* AuditLoggerConfig.maxStoredEntries of the logger the model constructs (a
\* constructor parameter; the default configuration has 1000).
maxStoredEntries == 3

\* The RateLimiter run: calls counted for one key in one window, steps of the
\* clock, and the length of a step.
MaxLimiterCount == 5
MaxLimiterSteps == 4
LimiterStepMs == 30000

\* The AuthProvider run: periods of the monitoring interval the clock goes
\* through, and the number of periods between two instants at which the user
\* acts.
MaxAuthPeriods == 215
\* The largest count handed to AuditLogger.getRecentLogs.
MaxRecentCount == 4
\* The debounce run: calls, steps of the clock, and the length of a step.
MaxDebounceCalls == 4
MaxDebounceSteps == 7
DebounceStepMs == 50
UserEveryPeriods == 30

\* ------------------------------------------------- program constants
HourMs == 3600000
WizardEstimatedDurationMin == 30
RequestEstimatedDurationMin == 45
EtaScale == 10
MapMax == 1000
OnMissionBaseSpeed == 45
ActiveBaseSpeed == 20

StartTime == HourMs

\* -------------------------------------------------------- enumerations
VehicleStatus == {"ACTIVE", "MAINTENANCE", "OUT_OF_SERVICE", "ON_MISSION"}
TripStatus == {"SCHEDULED", "DISPATCHED", "EN_ROUTE_PICKUP", "ARRIVED_PICKUP",
               "IN_PROGRESS", "COMPLETED", "CANCELLED", "RESCHEDULED"}
IncidentSeverity == {"LOW", "MEDIUM", "HIGH", "CRITICAL"}
UserStatus == {"ONLINE", "OFFLINE", "BUSY", "ON_LEAVE"}

\* An optional id that was never set (undefined), and the empty form value.
Undefined == "undefined"
Empty == ""
Truthy(id) == id # Undefined /\ id # Empty
\* An optional number that was never set.
UndefinedNum == -1
OrZero(n) == IF n = UndefinedNum THEN 0 ELSE n

NoFeedback == [present |-> FALSE, rating |-> 0, vehicleIssuesDetected |-> FALSE]
NoTrip == <<"t", 0>>

\* ------------------------------------------------------------ mock data
MOCK_USERS == <<"u1", "disp1", "d1", "d2", "mech1">>
UserIds == {MOCK_USERS[i] : i \in DOMAIN MOCK_USERS}
MockUserStatus == [u \in UserIds |-> IF u = "d2" THEN "BUSY" ELSE "ONLINE"]

VehicleOrder == <<"v1", "v2", "v3", "v4", "v5">>
VehicleIds == {VehicleOrder[i] : i \in DOMAIN VehicleOrder}
MOCK_VEHICLES ==
  [v \in VehicleIds |->
     CASE v = "v1" -> [status |-> "ON_MISSION", x |-> 450, y |-> 300, speed |-> 45,
                       assignedDriverId |-> "d2", standbyTime |-> 0, etaMinutes |-> 120]
       [] v = "v2" -> [status |-> "ACTIVE", x |-> 600, y |-> 650, speed |-> 0,
                       assignedDriverId |-> "d1", standbyTime |-> 15, etaMinutes |-> 0]
       [] v = "v3" -> [status |-> "MAINTENANCE", x |-> 150, y |-> 850, speed |-> 0,
                       assignedDriverId |-> Undefined, standbyTime |-> 0,
                       etaMinutes |-> UndefinedNum]
       [] v = "v4" -> [status |-> "OUT_OF_SERVICE", x |-> 800, y |-> 200, speed |-> 0,
                       assignedDriverId |-> Undefined, standbyTime |-> UndefinedNum,
                       etaMinutes |-> UndefinedNum]
       [] v = "v5" -> [status |-> "ACTIVE", x |-> 300, y |-> 500, speed |-> 22,
                       assignedDriverId |-> "d3", standbyTime |-> 5,
                       etaMinutes |-> UndefinedNum]]

MOCK_TRIPS ==
  << [id |-> <<"t", 101>>, vehicleId |-> "v1", driverId |-> "d2",
      status |-> "IN_PROGRESS", priority |-> "VIP", estimatedDurationMin |-> 45,
      pickupLocation |-> "Capitol West Gate", dropoffLocation |-> "Andrews AFB",
      pickupTime |-> "2023-10-27T14:00:00Z", feedback |-> NoFeedback],
     [id |-> <<"t", 102>>, vehicleId |-> Undefined, driverId |-> Undefined,
      status |-> "SCHEDULED", priority |-> "STANDARD", estimatedDurationMin |-> 30,
      pickupLocation |-> "HQ Sector 7", dropoffLocation |-> "Training Facility B",
      pickupTime |-> "2023-10-27T16:30:00Z", feedback |-> NoFeedback] >>

MOCK_INCIDENTS ==
  << [id |-> <<"inc", 1>>, vehicleId |-> "v4", driverId |-> "d3",
      severity |-> "CRITICAL", status |-> "OPEN", assignedToId |-> Undefined],
     [id |-> <<"inc", 2>>, vehicleId |-> "v3", driverId |-> "d1",
      severity |-> "LOW", status |-> "OPEN", assignedToId |-> Undefined] >>

MOCK_REQUESTS ==
  << [id |-> <<"req", 1>>, pickupLocation |-> "Dulles Int. Airport",
      dropoffLocation |-> "Blair House", requestedTime |-> "2023-10-27T18:00:00Z",
      priority |-> "VIP", status |-> "PENDING"],
     [id |-> <<"req", 2>>, pickupLocation |-> "Warehouse 4",
      dropoffLocation |-> "Sector 7 Depot", requestedTime |-> "2023-10-27T15:30:00Z",
      priority |-> "STANDARD", status |-> "PENDING"],
     [id |-> <<"req", 3>>, pickupLocation |-> "Command HQ",
      dropoffLocation |-> "Pentagon Annex", requestedTime |-> "2023-10-28T09:00:00Z",
      priority |-> "URGENT", status |-> "PENDING"] >>

InitialAuditLogs ==
  << [id |-> <<"al", 1>>, timestamp |-> StartTime, actorId |-> "u1",
      action |-> "SYSTEM_STARTUP", ref |-> <<"", 0>>, note |-> ""],
     [id |-> <<"al", 2>>, timestamp |-> StartTime - HourMs, actorId |-> "disp1",
      action |-> "SHIFT_START", ref |-> <<"", 0>>, note |-> ""] >>

\* The rider identity toggleViewMode installs.
RiderUser == "r1"

VARIABLES
  vehicles,          \* id -> vehicle record
  users,             \* id -> status
  trips,             \* newest first
  incidents,         \* newest first
  incomingRequests,  \* newest first
  auditLogs,         \* newest first
  viewMode,          \* "ADMIN" | "DRIVER" | "RIDER"
  currentUser,       \* id of the acting user
  isShiftActive,     \* DriverApp local state
  debriefTrip,       \* DriverApp local state: id of the trip being debriefed
  now,               \* Date.now()
  ticks,             \* telemetry ticks so far
  loggerLogs,        \* AuditLogger.logs, oldest first
  renderedTrips,     \* the trips of the last render: what the handlers' closures see
  attempts,          \* RateLimiter.attempts: key -> record
  authState,         \* AuthProvider state
  storedSession,     \* sessionStorage holds govfleet_session
  monitorDue,        \* when the AuthProvider interval fires next; 0 if not set
  timeout,           \* debounce: the pending timer
  fnCalls,           \* debounce: the runs of the debounced function so far
  result,            \* what the last library call returned
  sockets,           \* WebSocket server: socket id -> connection and auth timer
  pendingAuth,       \* WebSocket server: the authenticate handler in flight
  clients,           \* WebSocket server: the clients map, in insertion order
  vehicleUpdates,    \* WebSocket server: the vehicleUpdates map
  emitted,           \* WebSocket server: what the last handler emitted
  lastOp             \* the handler that ran last, with its arguments

vars == <<vehicles, users, trips, incidents, incomingRequests, auditLogs,
          viewMode, currentUser, isShiftActive, debriefTrip, now, ticks,
          loggerLogs, renderedTrips, attempts, authState, storedSession,
          monitorDue, timeout, fnCalls, result, sockets, pendingAuth, clients,
          vehicleUpdates, emitted, lastOp>>

\* The state of the App component, and the state of the security utilities.
appVars == <<vehicles, users, trips, incidents, incomingRequests, auditLogs,
             viewMode, currentUser, isShiftActive, debriefTrip, ticks,
             renderedTrips>>
utilVars == <<attempts, authState, storedSession, monitorDue, timeout, fnCalls>>
\* The state of the WebSocket server.
serverVars == <<sockets, pendingAuth, clients, vehicleUpdates, emitted>>

\* The record of a handler call: its arguments, and the statuses the named
\* trip, vehicle and driver had when it was called.
Op(name, id, vehicleId, driverId, status) ==
  [op |-> name, id |-> id, vehicleId |-> vehicleId, driverId |-> driverId,
   status |-> status,
   tripWas |-> IF \E i \in DOMAIN trips : trips[i].id = id
               THEN trips[CHOOSE i \in DOMAIN trips :
                            trips[i].id = id
                            /\ \A j \in 1..(i - 1) : trips[j].id # id].status
               ELSE Empty,
   vehicleWas |-> IF vehicleId \in DOMAIN vehicles
                  THEN vehicles[vehicleId].status ELSE Empty,
   driverWas |-> IF driverId \in DOMAIN users THEN users[driverId] ELSE Empty]

NoOp ==
  [op |-> "init", id |-> <<"", 0>>, vehicleId |-> Empty, driverId |-> Empty,
   status |-> Empty, tripWas |-> Empty, vehicleWas |-> Empty, driverWas |-> Empty]

\* Initial values of the security utilities.
LimiterKeys == {"k1", "k2"}
NoRecord == [present |-> FALSE, count |-> 0, resetTime |-> 0]
NoAttempts == [key \in LimiterKeys |-> NoRecord]
NoUser == ""
NoToken == <<"session", 0>>
InitialAuthState ==
  [isAuthenticated |-> FALSE, user |-> NoUser, sessionToken |-> NoToken,
   lastActivity |-> StartTime, loginAttempts |-> 0, isLockedOut |-> FALSE,
   lockoutExpires |-> 0]
NoTimeout == [set |-> FALSE, due |-> 0, args |-> ""]
NoResult == [kind |-> "none"]
\* The WebSocket server before any connection: no socket has connected, no
\* authenticate handler is running, both maps are empty.
SocketIds == {"s1", "s2"}
NoSocket == [state |-> "idle", authTimeout |-> "none"]
NoCall == [stage |-> "none", token |-> "", userId |-> "", role |-> ""]

Init ==
  /\ vehicles = MOCK_VEHICLES
  /\ users = MockUserStatus
  /\ trips = MOCK_TRIPS
  /\ incidents = MOCK_INCIDENTS
  /\ incomingRequests = MOCK_REQUESTS
  /\ auditLogs = InitialAuditLogs
  /\ viewMode = "ADMIN"
  /\ currentUser = MOCK_USERS[1]
  /\ isShiftActive = TRUE
  /\ debriefTrip = NoTrip
  /\ now = StartTime
  /\ ticks = 0
  /\ loggerLogs = << >>
  /\ renderedTrips = MOCK_TRIPS
  /\ attempts = NoAttempts
  /\ authState = InitialAuthState
  /\ storedSession = FALSE
  /\ monitorDue = 0
  /\ timeout = NoTimeout
  /\ fnCalls = << >>
  /\ result = NoResult
  /\ sockets = [s \in SocketIds |-> NoSocket]
  /\ pendingAuth = [s \in SocketIds |-> NoCall]
  /\ clients = << >>
  /\ vehicleUpdates = {}
  /\ emitted = {}
  /\ lastOp = NoOp

\* --------------------------------------------------------------- helpers
Min(a, b) == IF a < b THEN a ELSE b
Max(a, b) == IF a > b THEN a ELSE b

\* Array.prototype.find over the trips: index of the first match, 0 if none.
FindTripById(ts, tripId) ==
  IF \E i \in DOMAIN ts : ts[i].id = tripId
  THEN CHOOSE i \in DOMAIN ts :
         ts[i].id = tripId /\ \A j \in 1..(i - 1) : ts[j].id # tripId
  ELSE 0

\* Date.now() as a handler reads it: the clock has stood still since the last
\* reading or has moved on.  The handler's own readings all return now'.
ReadClock ==
  \/ now' = now
  \/ now < StartTime + MaxClockAdvance /\ now' = now + 1

\* addAuditLog: one entry stamped with the clock, put at the head.
addAuditLog(logs, action, ref, note, actorId) ==
  << [id |-> <<"al", now'>>, timestamp |-> now', actorId |-> actorId,
      action |-> action, ref |-> ref, note |-> note] >> \o logs

\* Room in the ledger for n more entries.  An operation is issued while there
\* is room for one entry; a handler that appends two may fill one past the
\* bound.
LedgerRoom(n) == Len(auditLogs) + n <= MaxAuditLogs

\* ------------------------------------------------------- telemetry tick
\* The Math.random() draws one vehicle consumes in one tick: the two moves
\* (tenths of a unit, in [-0.5, 0.5)), floor(random*10), random > 0.6 and
\* floor(random*20).
Draws ==
  { [moveX |-> -5, moveY |-> 4, r10 |-> 0, stay |-> TRUE,  r20 |-> 0],
    [moveX |-> 4, moveY |-> -5, r10 |-> 9, stay |-> FALSE, r20 |-> 19] }
\* The draws the dispatch specification lets a tick make.
DispatchDraws == { [moveX |-> 4, moveY |-> -5, r10 |-> 9, stay |-> TRUE, r20 |-> 0] }

\* advanceVehicle without the status test around the update.
advanceVehicleAnyStatus(v, d) ==
  LET eta0 == OrZero(v.etaMinutes)
      standby0 == OrZero(v.standbyTime)
      onMission == v.status = "ON_MISSION"
      newX == Min(MapMax, Max(0, v.x + d.moveX))
      newY == Min(MapMax, Max(0, v.y + d.moveY))
      newSpeed == IF onMission THEN OnMissionBaseSpeed + d.r10
                  ELSE IF d.stay THEN 0 ELSE ActiveBaseSpeed + d.r20
      newStandby == IF onMission THEN 0
                    ELSE IF d.stay THEN standby0 + 1 ELSE 0
      newEta == IF onMission /\ eta0 > 0 THEN eta0 - 1 ELSE eta0
  IN [v EXCEPT !.x = newX, !.y = newY, !.speed = newSpeed,
               !.standbyTime = newStandby, !.etaMinutes = Max(0, newEta)]

\* advanceVehicle with the sign of the ETA step slipped.
advanceVehicleEtaCountsUp(v, d) ==
  LET eta0 == OrZero(v.etaMinutes)
      standby0 == OrZero(v.standbyTime)
      onMission == v.status = "ON_MISSION"
      newX == Min(MapMax, Max(0, v.x + d.moveX))
      newY == Min(MapMax, Max(0, v.y + d.moveY))
      newSpeed == IF onMission THEN OnMissionBaseSpeed + d.r10
                  ELSE IF d.stay THEN 0 ELSE ActiveBaseSpeed + d.r20
      newStandby == IF onMission THEN 0
                    ELSE IF d.stay THEN standby0 + 1 ELSE 0
      newEta == IF onMission /\ eta0 > 0 THEN eta0 + 1 ELSE eta0
  IN IF v.status \in {"ACTIVE", "ON_MISSION"}
     THEN [v EXCEPT !.x = newX, !.y = newY, !.speed = newSpeed,
                    !.standbyTime = newStandby, !.etaMinutes = Max(0, newEta)]
     ELSE v

\* advanceVehicle with the standby counter left running when the vehicle
\* starts to move.
advanceVehicleStandbyKept(v, d) ==
  LET eta0 == OrZero(v.etaMinutes)
      standby0 == OrZero(v.standbyTime)
      onMission == v.status = "ON_MISSION"
      newX == Min(MapMax, Max(0, v.x + d.moveX))
      newY == Min(MapMax, Max(0, v.y + d.moveY))
      newSpeed == IF onMission THEN OnMissionBaseSpeed + d.r10
                  ELSE IF d.stay THEN 0 ELSE ActiveBaseSpeed + d.r20
      newStandby == IF onMission THEN 0
                    ELSE IF d.stay THEN standby0 + 1 ELSE standby0
      newEta == IF onMission /\ eta0 > 0 THEN eta0 - 1 ELSE eta0
  IN IF v.status \in {"ACTIVE", "ON_MISSION"}
     THEN [v EXCEPT !.x = newX, !.y = newY, !.speed = newSpeed,
                    !.standbyTime = newStandby, !.etaMinutes = Max(0, newEta)]
     ELSE v

\* advanceVehicle without the clamp on the new position.
advanceVehicleUnclamped(v, d) ==
  LET eta0 == OrZero(v.etaMinutes)
      standby0 == OrZero(v.standbyTime)
      onMission == v.status = "ON_MISSION"
      newX == v.x + d.moveX
      newY == v.y + d.moveY
      newSpeed == IF onMission THEN OnMissionBaseSpeed + d.r10
                  ELSE IF d.stay THEN 0 ELSE ActiveBaseSpeed + d.r20
      newStandby == IF onMission THEN 0
                    ELSE IF d.stay THEN standby0 + 1 ELSE 0
      newEta == IF onMission /\ eta0 > 0 THEN eta0 - 1 ELSE eta0
  IN IF v.status \in {"ACTIVE", "ON_MISSION"}
     THEN [v EXCEPT !.x = newX, !.y = newY, !.speed = newSpeed,
                    !.standbyTime = newStandby, !.etaMinutes = Max(0, newEta)]
     ELSE v

\* advanceVehicle with the ETA step left out.
advanceVehicleEtaHeld(v, d) ==
  LET eta0 == OrZero(v.etaMinutes)
      standby0 == OrZero(v.standbyTime)
      onMission == v.status = "ON_MISSION"
      newX == Min(MapMax, Max(0, v.x + d.moveX))
      newY == Min(MapMax, Max(0, v.y + d.moveY))
      newSpeed == IF onMission THEN OnMissionBaseSpeed + d.r10
                  ELSE IF d.stay THEN 0 ELSE ActiveBaseSpeed + d.r20
      newStandby == IF onMission THEN 0
                    ELSE IF d.stay THEN standby0 + 1 ELSE 0
      newEta == eta0
  IN IF v.status \in {"ACTIVE", "ON_MISSION"}
     THEN [v EXCEPT !.x = newX, !.y = newY, !.speed = newSpeed,
                    !.standbyTime = newStandby, !.etaMinutes = Max(0, newEta)]
     ELSE v

advanceVehicle(v, d) ==
  LET eta0 == OrZero(v.etaMinutes)
      standby0 == OrZero(v.standbyTime)
      onMission == v.status = "ON_MISSION"
      newX == Min(MapMax, Max(0, v.x + d.moveX))
      newY == Min(MapMax, Max(0, v.y + d.moveY))
      newSpeed == IF onMission THEN OnMissionBaseSpeed + d.r10
                  ELSE IF d.stay THEN 0 ELSE ActiveBaseSpeed + d.r20
      newStandby == IF onMission THEN 0
                    ELSE IF d.stay THEN standby0 + 1 ELSE 0
      newEta == IF onMission /\ eta0 > 0 THEN eta0 - 1 ELSE eta0
  IN IF v.status \in {"ACTIVE", "ON_MISSION"}
     THEN [v EXCEPT !.x = newX, !.y = newY, !.speed = newSpeed,
                    !.standbyTime = newStandby, !.etaMinutes = Max(0, newEta)]
     ELSE v

\* TickWith mapping the fleet the effect saw when it was set up.
TickWithMountedFleet(D, maxTicks) ==
  /\ ticks < maxTicks
  /\ \E draw \in [VehicleIds -> D] :
       vehicles' = [v \in VehicleIds |-> advanceVehicle(MOCK_VEHICLES[v], draw[v])]
  /\ ticks' = ticks + 1
  /\ lastOp' = Op("tick", <<"", 0>>, Empty, Empty, Empty)
  /\ UNCHANGED <<users, trips, incidents, incomingRequests, auditLogs, viewMode,
                 currentUser, isShiftActive, debriefTrip, now, loggerLogs, utilVars, serverVars, result>>
  /\ renderedTrips' = trips'

\* One run of the interval callback: every vehicle is mapped in one update.
TickWith(D, maxTicks) ==
  /\ ticks < maxTicks
  /\ \E draw \in [VehicleIds -> D] :
       vehicles' = [v \in VehicleIds |-> advanceVehicle(vehicles[v], draw[v])]
  /\ ticks' = ticks + 1
  /\ lastOp' = Op("tick", <<"", 0>>, Empty, Empty, Empty)
  /\ UNCHANGED <<users, trips, incidents, incomingRequests, auditLogs, viewMode,
                 currentUser, isShiftActive, debriefTrip, now, loggerLogs, utilVars, serverVars, result>>
  /\ renderedTrips' = trips'

Tick == TickWith(DispatchDraws, MaxTicks)

\* ------------------------------------------------------------ createTrip
\* What the dispatch wizard can submit: a driver from the full user list, a
\* vehicle from the ACTIVE ones or the one the AI recommendation names.  The
\* recommendation is the reply of a remote service and is copied into the
\* form as it comes: it may name a vehicle the store does not hold.
WizardDriverInputs == {"disp1", "d2"}
AiVehicleSuggestions == {"v2", "v4", "v9"}
WizardVehicleChoice(v) ==
  \/ v \in AiVehicleSuggestions
  \/ v \in VehicleIds /\ vehicles[v].status = "ACTIVE"

\* handleCreateTrip without the driver wiring.
handleCreateTripDriverNotWired(tripData) ==
  /\ trips' = <<tripData>> \o trips
  /\ users' = users
  /\ vehicles' = IF Truthy(tripData.vehicleId)
                 THEN [v \in VehicleIds |->
                         IF v = tripData.vehicleId
                         THEN [vehicles[v] EXCEPT
                                 !.status = "ON_MISSION",
                                 !.etaMinutes = tripData.estimatedDurationMin * EtaScale]
                         ELSE vehicles[v]]
                 ELSE vehicles
  /\ auditLogs' = addAuditLog(auditLogs, "DISPATCH_CREATED", tripData.id,
                              tripData.vehicleId, currentUser)

handleCreateTrip(tripData) ==
  /\ trips' = <<tripData>> \o trips
  /\ users' = IF Truthy(tripData.driverId)
              THEN [u \in UserIds |-> IF u = tripData.driverId THEN "BUSY" ELSE users[u]]
              ELSE users
  /\ vehicles' = IF Truthy(tripData.vehicleId)
                 THEN [v \in VehicleIds |->
                         IF v = tripData.vehicleId
                         THEN [vehicles[v] EXCEPT
                                 !.status = "ON_MISSION",
                                 !.etaMinutes = tripData.estimatedDurationMin * EtaScale]
                         ELSE vehicles[v]]
                 ELSE vehicles
  /\ auditLogs' = addAuditLog(auditLogs, "DISPATCH_CREATED", tripData.id,
                              tripData.vehicleId, currentUser)

\* TripDispatchWizard.handleSubmit -> onDispatch.
DispatchWizardSubmit ==
  /\ ReadClock
  /\ viewMode = "ADMIN"
  /\ \E d \in WizardDriverInputs, v \in VehicleIds \cup AiVehicleSuggestions :
       /\ WizardVehicleChoice(v)
       /\ handleCreateTrip([id |-> <<"t", now'>>, vehicleId |-> v, driverId |-> d,
                            status |-> "DISPATCHED", priority |-> "STANDARD",
                            estimatedDurationMin |-> WizardEstimatedDurationMin,
                            pickupLocation |-> "Pickup", dropoffLocation |-> "Dropoff",
                            pickupTime |-> Empty, feedback |-> NoFeedback])
       /\ lastOp' = Op("createTrip", <<"t", now'>>, v, d, "DISPATCHED")
  /\ UNCHANGED <<incidents, incomingRequests, viewMode, currentUser,
                 isShiftActive, debriefTrip, ticks, loggerLogs, utilVars, serverVars, result>>

\* The submit and the render that follows it.
CreateTrip == LedgerRoom(1) /\ DispatchWizardSubmit /\ renderedTrips' = trips'

\* -------------------------------------------------------------- editTrip
\* What the edit form can submit for a trip: every status of the select, and
\* for driver and vehicle the value the form was opened with or another
\* option of the select.
FormId(id) == IF id = Undefined THEN Empty ELSE id
EditDriverInputs == {"disp1"}
EditVehicleInputs == {"v3", "v4"}

handleSaveTrip(tripId, updates) ==
  /\ trips' = [i \in DOMAIN trips |->
                 IF trips[i].id = tripId
                 THEN [trips[i] EXCEPT !.status = updates.status,
                                       !.driverId = updates.driverId,
                                       !.vehicleId = updates.vehicleId,
                                       !.priority = updates.priority,
                                       !.pickupLocation = updates.pickupLocation,
                                       !.dropoffLocation = updates.dropoffLocation,
                                       !.pickupTime = updates.pickupTime]
                 ELSE trips[i]]
  /\ auditLogs' = addAuditLog(auditLogs, "TRIP_EDITED", tripId, "", currentUser)

SaveTrip ==
  /\ ReadClock
  /\ viewMode = "ADMIN"
  /\ LedgerRoom(1)
  /\ \E i \in DOMAIN trips :
       \E s \in TripStatus,
          d \in {FormId(trips[i].driverId)} \cup EditDriverInputs,
          v \in {FormId(trips[i].vehicleId)} \cup EditVehicleInputs :
         /\ handleSaveTrip(trips[i].id,
                           [status |-> s, driverId |-> d, vehicleId |-> v,
                            priority |-> trips[i].priority,
                            pickupLocation |-> trips[i].pickupLocation,
                            dropoffLocation |-> trips[i].dropoffLocation,
                            pickupTime |-> trips[i].pickupTime])
         /\ lastOp' = Op("editTrip", trips[i].id, v, d, s)
  /\ UNCHANGED <<vehicles, users, incidents, incomingRequests, viewMode,
                 currentUser, isShiftActive, debriefTrip, ticks, loggerLogs, utilVars, serverVars, result>>
  /\ renderedTrips' = trips'

\* ------------------------------------------- cancelTrip (Cancel Mission)
handleDeleteTrip(tripId) ==
  /\ trips' = SelectSeq(trips, LAMBDA t : t.id # tripId)
  /\ auditLogs' = addAuditLog(auditLogs, "TRIP_DELETED", tripId, "", currentUser)

\* The button is rendered for trips that are neither COMPLETED nor CANCELLED;
\* the confirm() dialog is answered yes.
DeleteTrip ==
  /\ ReadClock
  /\ viewMode = "ADMIN"
  /\ LedgerRoom(1)
  /\ \E i \in DOMAIN trips :
       /\ trips[i].status \notin {"COMPLETED", "CANCELLED"}
       /\ handleDeleteTrip(trips[i].id)
       /\ lastOp' = Op("cancelTrip", trips[i].id, trips[i].vehicleId,
                       trips[i].driverId, trips[i].status)
  /\ UNCHANGED <<vehicles, users, incidents, incomingRequests, viewMode,
                 currentUser, isShiftActive, debriefTrip, ticks, loggerLogs, utilVars, serverVars, result>>
  /\ renderedTrips' = trips'

\* ------------------------------------------------- advance / completeTrip
\* setTrips maps over the state that is current when the update is applied;
\* trips.find reads the array of the render the handler was created in.
handleTripUpdate(tripId, newStatus, feedback) ==
  LET k == FindTripById(renderedTrips, tripId)
      trip == renderedTrips[k]
      terminal == newStatus \in {"COMPLETED", "CANCELLED"}
      issues == feedback.present /\ feedback.vehicleIssuesDetected
      logged1 == IF issues
                 THEN addAuditLog(auditLogs, "TRIP_FEEDBACK", tripId, "", currentUser)
                 ELSE auditLogs
  IN /\ trips' = [i \in DOMAIN trips |->
                    IF trips[i].id = tripId
                    THEN [trips[i] EXCEPT !.status = newStatus, !.feedback = feedback]
                    ELSE trips[i]]
     /\ IF k = 0
        THEN UNCHANGED <<users, vehicles, auditLogs>>
        ELSE IF terminal
        THEN /\ users' = IF Truthy(trip.driverId)
                         THEN [u \in UserIds |->
                                 IF u = trip.driverId THEN "ONLINE" ELSE users[u]]
                         ELSE users
             /\ vehicles' = IF Truthy(trip.vehicleId)
                            THEN [v \in VehicleIds |->
                                    IF v = trip.vehicleId
                                    THEN [vehicles[v] EXCEPT !.status = "ACTIVE",
                                                             !.etaMinutes = 0]
                                    ELSE vehicles[v]]
                            ELSE vehicles
             /\ auditLogs' = addAuditLog(logged1, "TRIP_COMPLETED", tripId,
                                         trip.driverId, currentUser)
        ELSE IF newStatus = "IN_PROGRESS"
        THEN /\ auditLogs' = addAuditLog(auditLogs, "TRIP_STARTED", tripId, "",
                                         currentUser)
             /\ UNCHANGED <<users, vehicles>>
        ELSE UNCHANGED <<users, vehicles, auditLogs>>

\* The trip the driver client is handed: the first one of the current user
\* that is neither COMPLETED nor CANCELLED; 0 if there is none.
ActiveTripIndex ==
  LET mine(t) == t.driverId = currentUser /\ t.status \notin {"COMPLETED", "CANCELLED"}
  IN IF \E i \in DOMAIN trips : mine(trips[i])
     THEN CHOOSE i \in DOMAIN trips :
            mine(trips[i]) /\ \A j \in 1..(i - 1) : ~mine(trips[j])
     ELSE 0

NextTripStatus(s) ==
  CASE s = "DISPATCHED" -> "EN_ROUTE_PICKUP"
    [] s = "EN_ROUTE_PICKUP" -> "ARRIVED_PICKUP"
    [] s = "ARRIVED_PICKUP" -> "IN_PROGRESS"
    [] OTHER -> s

\* DriverApp.handleTripAction: one step forward, or debrief mode at IN_PROGRESS.
TripAction ==
  /\ viewMode = "DRIVER"
  /\ isShiftActive
  /\ debriefTrip = NoTrip
  /\ ActiveTripIndex # 0
  /\ LET t == trips[ActiveTripIndex]
     IN \/ /\ t.status \in {"DISPATCHED", "EN_ROUTE_PICKUP", "ARRIVED_PICKUP"}
           /\ IF NextTripStatus(t.status) = "IN_PROGRESS"
              THEN LedgerRoom(1) /\ ReadClock
              ELSE now' = now
           /\ handleTripUpdate(t.id, NextTripStatus(t.status), NoFeedback)
           /\ lastOp' = Op("advanceTrip", t.id, t.vehicleId, t.driverId,
                           NextTripStatus(t.status))
           /\ UNCHANGED debriefTrip
        \/ /\ t.status = "IN_PROGRESS"
           /\ debriefTrip' = t.id
           /\ now' = now
           /\ lastOp' = Op("debrief", t.id, t.vehicleId, t.driverId, t.status)
           /\ UNCHANGED <<trips, users, vehicles, auditLogs>>
  /\ UNCHANGED <<incidents, incomingRequests, viewMode, currentUser,
                 isShiftActive, ticks, loggerLogs, utilVars, serverVars, result>>
  /\ renderedTrips' = trips'

\* DriverApp.submitDebrief: completeTrip with the driver's feedback.
SubmitDebrief ==
  /\ ReadClock
  /\ viewMode = "DRIVER"
  /\ debriefTrip # NoTrip
  /\ LedgerRoom(1)
  /\ \E issues \in BOOLEAN :
       /\ handleTripUpdate(debriefTrip, "COMPLETED",
                           [present |-> TRUE, rating |-> 5,
                            vehicleIssuesDetected |-> issues])
  /\ lastOp' = LET k == FindTripById(trips, debriefTrip)
               IN Op("completeTrip", debriefTrip, trips[k].vehicleId,
                     trips[k].driverId, "COMPLETED")
  /\ debriefTrip' = NoTrip
  /\ UNCHANGED <<incidents, incomingRequests, viewMode, currentUser,
                 isShiftActive, ticks, loggerLogs, utilVars, serverVars, result>>
  /\ renderedTrips' = trips'

\* DriverApp.toggleShift -> onStatusChange.  The Start Shift button shows when
\* the shift is off, the End Shift button when it is on and no trip is active.
ToggleShift ==
  /\ viewMode = "DRIVER"
  /\ debriefTrip = NoTrip
  /\ ~isShiftActive \/ ActiveTripIndex = 0
  /\ isShiftActive' = ~isShiftActive
  /\ users' = [u \in UserIds |->
                 IF u = currentUser
                 THEN (IF ~isShiftActive THEN "ONLINE" ELSE "OFFLINE")
                 ELSE users[u]]
  /\ lastOp' = Op("toggleShift", <<"", 0>>, Empty, currentUser,
                  IF ~isShiftActive THEN "ONLINE" ELSE "OFFLINE")
  /\ UNCHANGED <<vehicles, trips, incidents, incomingRequests, auditLogs,
                 viewMode, currentUser, debriefTrip, now, ticks, loggerLogs, utilVars, serverVars, result>>
  /\ renderedTrips' = trips'

\* ----------------------------------------------------------- view toggle
\* ADMIN -> DRIVER -> RIDER -> ADMIN.  DriverApp is mounted on entering the
\* driver view, with isShiftActive read from the profile it is given.
toggleViewMode ==
  /\ viewMode' = CASE viewMode = "ADMIN" -> "DRIVER"
                   [] viewMode = "DRIVER" -> "RIDER"
                   [] OTHER -> "ADMIN"
  /\ currentUser' = CASE viewMode = "ADMIN" -> MOCK_USERS[2]
                      [] viewMode = "DRIVER" -> RiderUser
                      [] OTHER -> MOCK_USERS[1]
  /\ isShiftActive' = TRUE
  /\ debriefTrip' = NoTrip
  /\ lastOp' = Op("toggleViewMode", <<"", 0>>, Empty, Empty, Empty)
  /\ UNCHANGED <<vehicles, users, trips, incidents, incomingRequests, auditLogs,
                 now, ticks, loggerLogs, utilVars, serverVars, result>>
  /\ renderedTrips' = trips'

\* -------------------------------------------------------- reportIncident
\* Severities handed to the handler: HIGH is what the driver client's modal
\* passes; CRITICAL is the other value of the handler's parameter the
\* handler branches on.
SeverityInputs == {"HIGH", "CRITICAL"}

\* Array.prototype.find over the vehicles in list order.
FindVehicleOfDriver(driverId) ==
  IF \E i \in DOMAIN VehicleOrder : vehicles[VehicleOrder[i]].assignedDriverId = driverId
  THEN VehicleOrder[CHOOSE i \in DOMAIN VehicleOrder :
         /\ vehicles[VehicleOrder[i]].assignedDriverId = driverId
         /\ \A j \in 1..(i - 1) : vehicles[VehicleOrder[j]].assignedDriverId # driverId]
  ELSE "UNKNOWN"

handleReportIncident(severity) ==
  LET vehicle == FindVehicleOfDriver(currentUser)
      found == vehicle # "UNKNOWN"
      newIncident == [id |-> <<"inc", now'>>, vehicleId |-> vehicle,
                      driverId |-> currentUser, severity |-> severity,
                      status |-> "OPEN", assignedToId |-> Undefined]
      override == severity = "CRITICAL" /\ found
      logged1 == IF override
                 THEN addAuditLog(auditLogs, "CRITICAL_ALERT", newIncident.id,
                                  vehicle, currentUser)
                 ELSE auditLogs
  IN /\ incidents' = <<newIncident>> \o incidents
     /\ vehicles' = IF override
                    THEN [v \in VehicleIds |->
                            IF v = vehicle
                            THEN [vehicles[v] EXCEPT !.status = "OUT_OF_SERVICE"]
                            ELSE vehicles[v]]
                    ELSE vehicles
     /\ auditLogs' = addAuditLog(logged1, "INCIDENT_REPORTED", newIncident.id,
                                 vehicle, currentUser)

ReportIncident ==
  /\ ReadClock
  /\ viewMode = "DRIVER"
  /\ isShiftActive
  /\ debriefTrip = NoTrip
  /\ LedgerRoom(1)
  /\ \E severity \in SeverityInputs :
       /\ handleReportIncident(severity)
       /\ lastOp' = Op("reportIncident", <<"inc", now'>>,
                       FindVehicleOfDriver(currentUser), currentUser, severity)
  /\ UNCHANGED <<users, trips, incomingRequests, viewMode, currentUser,
                 isShiftActive, debriefTrip, ticks, loggerLogs, utilVars, serverVars, result>>
  /\ renderedTrips' = trips'

\* ------------------------------------ acknowledgeIncident / assignIncident
\* The incident rows and the agents of the assignment modal the model clicks.
IncidentInputs == {<<"inc", 2>>}
AgentInputs == {"mech1"}

handleAcknowledgeIncident(id) ==
  /\ incidents' = [i \in DOMAIN incidents |->
                     IF incidents[i].id = id
                     THEN [incidents[i] EXCEPT !.status = "ACKNOWLEDGED"]
                     ELSE incidents[i]]
  /\ auditLogs' = addAuditLog(auditLogs, "INCIDENT_ACK", id, "", currentUser)

\* The Ack button is rendered for the incidents that are OPEN.
AcknowledgeIncident ==
  /\ ReadClock
  /\ viewMode = "ADMIN"
  /\ LedgerRoom(1)
  /\ \E i \in DOMAIN incidents :
       /\ incidents[i].id \in IncidentInputs
       /\ incidents[i].status = "OPEN"
       /\ handleAcknowledgeIncident(incidents[i].id)
       /\ lastOp' = Op("acknowledgeIncident", incidents[i].id, Empty, Empty, Empty)
  /\ UNCHANGED <<vehicles, users, trips, incomingRequests, viewMode, currentUser,
                 isShiftActive, debriefTrip, ticks, loggerLogs, utilVars, serverVars, result>>
  /\ renderedTrips' = trips'

\* handleAgentAssignment with assigningIncidentId as handleAssignIncident set it.
handleAgentAssignment(assigningIncidentId, agentId) ==
  /\ incidents' = [i \in DOMAIN incidents |->
                     IF incidents[i].id = assigningIncidentId
                     THEN [incidents[i] EXCEPT
                             !.assignedToId = agentId,
                             !.status = IF incidents[i].status = "OPEN"
                                        THEN "INVESTIGATING" ELSE incidents[i].status]
                     ELSE incidents[i]]
  /\ auditLogs' = addAuditLog(auditLogs, "INCIDENT_ASSIGNED", assigningIncidentId,
                              agentId, currentUser)

\* The Assign button of an incident row, then Confirm Assignment in the modal.
AgentAssignment ==
  /\ ReadClock
  /\ viewMode = "ADMIN"
  /\ LedgerRoom(1)
  /\ \E i \in DOMAIN incidents, agentId \in AgentInputs :
       /\ incidents[i].id \in IncidentInputs
       /\ handleAgentAssignment(incidents[i].id, agentId)
       /\ lastOp' = Op("assignIncident", incidents[i].id, Empty, agentId, Empty)
  /\ UNCHANGED <<vehicles, users, trips, incomingRequests, viewMode, currentUser,
                 isShiftActive, debriefTrip, ticks, loggerLogs, utilVars, serverVars, result>>
  /\ renderedTrips' = trips'

\* ------------------------------------------- approveRequest / rejectRequest
RequestInputs == {<<"req", 3>>}

FindRequest(id) ==
  IF \E i \in DOMAIN incomingRequests : incomingRequests[i].id = id
  THEN CHOOSE i \in DOMAIN incomingRequests :
         incomingRequests[i].id = id
         /\ \A j \in 1..(i - 1) : incomingRequests[j].id # id
  ELSE 0

handleRequestAction(id, action) ==
  LET k == FindRequest(id)
      request == incomingRequests[k]
      newTrip == [id |-> <<"t", now'>>, vehicleId |-> Undefined,
                  driverId |-> Undefined, status |-> "SCHEDULED",
                  priority |-> request.priority,
                  estimatedDurationMin |-> RequestEstimatedDurationMin,
                  pickupLocation |-> request.pickupLocation,
                  dropoffLocation |-> request.dropoffLocation,
                  pickupTime |-> request.requestedTime,
                  feedback |-> NoFeedback]
  IN IF k = 0
     THEN UNCHANGED <<trips, incomingRequests, auditLogs>>
     ELSE /\ incomingRequests' = SelectSeq(incomingRequests, LAMBDA r : r.id # id)
          /\ IF action = "REJECT"
             THEN /\ auditLogs' = addAuditLog(auditLogs, "REQUEST_REJECTED", id, "",
                                              currentUser)
                  /\ UNCHANGED trips
             ELSE /\ trips' = <<newTrip>> \o trips
                  /\ auditLogs' = addAuditLog(auditLogs, "REQUEST_APPROVED", id, "",
                                              currentUser)

\* Approve or Reject for one of the requests the store started with: it is
\* PENDING while it is in the list and has been resolved once it is not.
RequestAction ==
  /\ ReadClock
  /\ viewMode = "ADMIN"
  /\ LedgerRoom(1)
  /\ \E id \in RequestInputs, action \in {"APPROVE", "REJECT"} :
       /\ handleRequestAction(id, action)
       /\ lastOp' = Op(IF action = "APPROVE" THEN "approveRequest" ELSE "rejectRequest",
                       id, Empty, Empty,
                       IF FindRequest(id) # 0 THEN "PENDING" ELSE "RESOLVED")
  /\ UNCHANGED <<vehicles, users, incidents, viewMode, currentUser,
                 isShiftActive, debriefTrip, ticks, loggerLogs, utilVars, serverVars, result>>
  /\ renderedTrips' = trips'

Next ==
  \/ Tick
  \/ CreateTrip
  \/ SaveTrip
  \/ DeleteTrip
  \/ TripAction
  \/ SubmitDebrief
  \/ ToggleShift
  \/ toggleViewMode
  \/ ReportIncident
  \/ AcknowledgeIncident
  \/ AgentAssignment
  \/ RequestAction

Spec == Init /\ [][Next]_vars

\* -------------------------------------------------------- AuditLogger
\* The actions a caller logs, one of each severity class, the actor, and the
\* Math.random() suffix of the entry id.
LoggerActionInputs == {"LOGIN_SUCCESS", "LOGIN_FAILURE", "UNAUTHORIZED_ACCESS"}
LoggerActorInputs == {"u1", "disp1"}
LoggerRandomInputs == {0, 1}

getSeverityForAction(action) ==
  IF action \in {"UNAUTHORIZED_ACCESS", "SUSPICIOUS_ACTIVITY", "XSS_DETECTED",
                 "SQL_INJECTION_DETECTED", "ACCOUNT_LOCKOUT"}
  THEN "CRITICAL"
  ELSE IF action \in {"LOGIN_FAILURE", "DELETE_RECORD", "PERMISSION_CHANGE",
                      "CONFIG_CHANGE", "SESSION_TIMEOUT"}
  THEN "WARNING"
  ELSE "INFO"

\* Array.prototype.slice(start): a negative start counts from the end, and
\* the start is clamped to the array.
Slice(seq, start) ==
  LET k == IF start < 0 THEN Max(Len(seq) + start, 0) ELSE Min(start, Len(seq))
  IN SubSeq(seq, k + 1, Len(seq))

\* Array.prototype.slice(-n); -0 is 0.
SliceLast(seq, n) == Slice(seq, 0 - n)

\* AuditLogger.log: push the entry, then keep the most recent
\* maxStoredEntries.
AuditLoggerLog(logs, action, actorId, rnd) ==
  LET entry == [id |-> <<"audit", now', rnd>>, timestamp |-> now',
                actorId |-> actorId, action |-> action,
                severity |-> getSeverityForAction(action)]
      pushed == Append(logs, entry)
  IN IF Len(pushed) > maxStoredEntries
     THEN SliceLast(pushed, maxStoredEntries)
     ELSE pushed

LoggerLog ==
  /\ ReadClock
  /\ \E action \in LoggerActionInputs, actorId \in LoggerActorInputs,
        rnd \in LoggerRandomInputs :
       /\ loggerLogs' = AuditLoggerLog(loggerLogs, action, actorId, rnd)
       /\ result' = [kind |-> "entry", value |-> <<"audit", now', rnd>>]
       /\ lastOp' = Op("log", <<"audit", now'>>, Empty, actorId, action)
  /\ UNCHANGED <<appVars, utilVars, serverVars>>

\* AuditLogger.clearLogs.
ClearLogs ==
  /\ loggerLogs' = << >>
  /\ result' = NoResult
  /\ lastOp' = Op("clearLogs", <<"", 0>>, Empty, Empty, Empty)
  /\ UNCHANGED <<appVars, utilVars, serverVars, now>>

\* The query methods.
getRecentLogs(count) == SliceLast(loggerLogs, count)
getLogsByActor(actorId) == SelectSeq(loggerLogs, LAMBDA log : log.actorId = actorId)
getLogsByAction(action) == SelectSeq(loggerLogs, LAMBDA log : log.action = action)

GetRecentLogs ==
  /\ \E count \in 0..MaxRecentCount :
       /\ result' = [kind |-> "logs", value |-> getRecentLogs(count)]
       /\ lastOp' = [op |-> "getRecentLogs", count |-> count]
  /\ UNCHANGED <<appVars, utilVars, serverVars, loggerLogs, now>>

GetLogsByActor ==
  /\ \E actorId \in LoggerActorInputs :
       /\ result' = [kind |-> "logs", value |-> getLogsByActor(actorId)]
       /\ lastOp' = [op |-> "getLogsByActor", actorId |-> actorId]
  /\ UNCHANGED <<appVars, utilVars, serverVars, loggerLogs, now>>

GetLogsByAction ==
  /\ \E action \in LoggerActionInputs :
       /\ result' = [kind |-> "logs", value |-> getLogsByAction(action)]
       /\ lastOp' = [op |-> "getLogsByAction", action |-> action]
  /\ UNCHANGED <<appVars, utilVars, serverVars, loggerLogs, now>>

LedgerNext ==
  \/ LoggerLog
  \/ ClearLogs
  \/ GetRecentLogs
  \/ GetLogsByActor
  \/ GetLogsByAction

LedgerSpec == Init /\ [][LedgerNext]_vars

\* ------------------------------------------------- the telemetry run
\* A long run of the interval callback, with dispatches from the wizard in
\* between: long enough for the ETA of the initial mission (12.0 min, 0.1 per
\* tick) to run out.
TelemetryTick == TickWith(DispatchDraws, MaxTelemetryTicks)

TelemetryCreateTrip ==
  /\ Len(auditLogs) < Len(InitialAuditLogs) + MaxTelemetryDispatches
  /\ DispatchWizardSubmit
  /\ renderedTrips' = trips'

TelemetryNext ==
  \/ TelemetryTick
  \/ TelemetryCreateTrip

TelemetrySpec == Init /\ [][TelemetryNext]_vars

\* ------------------------------------- the incident handlers by themselves
\* handleAcknowledgeIncident takes any incident id; the Ack button of a row is
\* its only caller and is rendered while the row is OPEN.  Here the handler is
\* called for any incident of the store, between assignments from the modal.
DeskRoom(n) == Len(auditLogs) + n <= MaxDeskLogs

AcknowledgeIncidentCall ==
  /\ ReadClock
  /\ DeskRoom(1)
  /\ \E i \in DOMAIN incidents :
       /\ handleAcknowledgeIncident(incidents[i].id)
       /\ lastOp' = Op("acknowledgeIncident", incidents[i].id, Empty, Empty,
                       incidents[i].status)
  /\ UNCHANGED <<vehicles, users, trips, incomingRequests, viewMode, currentUser,
                 isShiftActive, debriefTrip, ticks, loggerLogs, utilVars, serverVars, result>>
  /\ renderedTrips' = trips'

AgentAssignmentCall ==
  /\ ReadClock
  /\ DeskRoom(1)
  /\ \E i \in DOMAIN incidents, agentId \in AgentInputs :
       /\ handleAgentAssignment(incidents[i].id, agentId)
       /\ lastOp' = Op("assignIncident", incidents[i].id, Empty, agentId,
                       incidents[i].status)
  /\ UNCHANGED <<vehicles, users, trips, incomingRequests, viewMode, currentUser,
                 isShiftActive, debriefTrip, ticks, loggerLogs, utilVars, serverVars, result>>
  /\ renderedTrips' = trips'

DeskNext ==
  \/ AcknowledgeIncidentCall
  \/ AgentAssignmentCall

DeskSpec == Init /\ [][DeskNext]_vars

\* ------------------------------------------------- the draws of a tick
\* A short run of the interval callback in which every vehicle draws its own
\* random numbers (stationary or moving, either end of each speed range, a
\* move either way), with one dispatch from the wizard in between.
MotionTick == TickWith(Draws, MaxMotionTicks)

MotionCreateTrip ==
  /\ Len(auditLogs) < Len(InitialAuditLogs) + MaxTelemetryDispatches
  /\ DispatchWizardSubmit
  /\ renderedTrips' = trips'

MotionNext ==
  \/ MotionTick
  \/ MotionCreateTrip

MotionSpec == Init /\ [][MotionNext]_vars

\* ------------------------------------------------- the interval, for ever
\* The interval callback for as long as the App is mounted: setInterval fires
\* it again and again, so a tick that is due is not put off for ever.  Every
\* vehicle draws a move of 0 and starts moving, which keeps the run finite:
\* the standby counter of a vehicle that stays where it is has no bound.
SteadyDraws == { [moveX |-> 0, moveY |-> 0, r10 |-> 0, stay |-> FALSE, r20 |-> 0] }

IntervalTick ==
  /\ \E draw \in [VehicleIds -> SteadyDraws] :
       vehicles' = [v \in VehicleIds |-> advanceVehicle(vehicles[v], draw[v])]
  /\ lastOp' = Op("tick", <<"", 0>>, Empty, Empty, Empty)
  /\ UNCHANGED <<users, trips, incidents, incomingRequests, auditLogs, viewMode,
                 currentUser, isShiftActive, debriefTrip, now, ticks, loggerLogs,
                 utilVars, serverVars, result>>
  /\ renderedTrips' = trips'

IntervalCreateTrip ==
  /\ Len(auditLogs) < Len(InitialAuditLogs) + MaxTelemetryDispatches
  /\ DispatchWizardSubmit
  /\ renderedTrips' = trips'

IntervalNext ==
  \/ IntervalTick
  \/ IntervalCreateTrip

IntervalSpec == Init /\ [][IntervalNext]_vars /\ WF_vars(IntervalTick)

\* --------------------------------------------- the trip handlers by themselves
\* handleTripUpdate takes any trip id and status; the driver client is its only
\* caller and hands it the active trip.  Here the handler is called with
\* COMPLETED for any trip of the store, between dispatches from the wizard.
CoordinatorRoom(n) == Len(auditLogs) + n <= MaxCoordinatorLogs

\* Handlers called one after the other in one batch run against the closures
\* of the same render; the render follows the batch.
CoordinatorCreateTrip ==
  CoordinatorRoom(1) /\ DispatchWizardSubmit /\ UNCHANGED renderedTrips

CompleteTripCall ==
  /\ ReadClock
  /\ CoordinatorRoom(1)
  /\ \E i \in DOMAIN trips :
       /\ handleTripUpdate(trips[i].id, "COMPLETED",
                           [present |-> TRUE, rating |-> 5,
                            vehicleIssuesDetected |-> FALSE])
       /\ lastOp' = Op("completeTrip", trips[i].id, trips[i].vehicleId,
                       trips[i].driverId, "COMPLETED")
  /\ UNCHANGED <<incidents, incomingRequests, viewMode, currentUser,
                 isShiftActive, debriefTrip, ticks, loggerLogs, utilVars, serverVars, result,
                 renderedTrips>>

CoordinatorRender ==
  /\ renderedTrips # trips
  /\ renderedTrips' = trips
  /\ UNCHANGED <<vehicles, users, trips, incidents, incomingRequests, auditLogs,
                 viewMode, currentUser, isShiftActive, debriefTrip, now, ticks,
                 loggerLogs, utilVars, serverVars, result, lastOp>>

CoordinatorNext ==
  \/ CoordinatorRender
  \/ CoordinatorCreateTrip
  \/ CompleteTripCall

CoordinatorSpec == Init /\ [][CoordinatorNext]_vars

\* -------------------------------------------------------- RateLimiter
\* One RateLimiter, built as the test suite builds it: three attempts in a
\* window of a minute.  Time moves in steps of half a window.
maxAttempts == 3
windowMs == 60000

\* Math.ceil(a / b) for a >= 0, b > 0.
CeilDiv(a, b) == (a + b - 1) \div b

\* RateLimiter.recordAttempt.
recordAttempt(key) ==
  LET record == attempts[key]
      count == record.count + 1
      remaining == Max(0, maxAttempts - count)
  IN IF ~record.present \/ now > record.resetTime
     THEN /\ attempts' = [attempts EXCEPT ![key] =
                            [present |-> TRUE, count |-> 1,
                             resetTime |-> now + windowMs]]
          /\ result' = [kind |-> "attempt", allowed |-> TRUE,
                        remaining |-> maxAttempts - 1, retryAfter |-> UndefinedNum]
     ELSE /\ attempts' = [attempts EXCEPT ![key].count = count]
          /\ result' = IF count >= maxAttempts
                       THEN [kind |-> "attempt", allowed |-> FALSE, remaining |-> 0,
                             retryAfter |-> CeilDiv(record.resetTime - now, 1000)]
                       ELSE [kind |-> "attempt", allowed |-> TRUE,
                             remaining |-> remaining, retryAfter |-> UndefinedNum]

RecordAttempt ==
  /\ \E key \in LimiterKeys :
       /\ attempts[key].count < MaxLimiterCount
       /\ recordAttempt(key)
       /\ lastOp' = [op |-> "recordAttempt", key |-> key]
  /\ UNCHANGED <<appVars, serverVars, loggerLogs, authState, storedSession, monitorDue,
                 timeout, fnCalls, now>>

\* The value RateLimiter.isRateLimited returns for a key.
isRateLimited(key) ==
  LET record == attempts[key]
  IN IF ~record.present THEN FALSE
     ELSE IF now > record.resetTime THEN FALSE
     ELSE record.count >= maxAttempts

\* RateLimiter.isRateLimited: an expired record is deleted on the way.
IsRateLimited ==
  /\ \E key \in LimiterKeys :
       LET record == attempts[key]
       IN /\ IF ~record.present
             THEN /\ result' = [kind |-> "limited", value |-> FALSE]
                  /\ UNCHANGED attempts
             ELSE IF now > record.resetTime
             THEN /\ attempts' = [attempts EXCEPT ![key] = NoRecord]
                  /\ result' = [kind |-> "limited", value |-> FALSE]
             ELSE /\ result' = [kind |-> "limited",
                                value |-> record.count >= maxAttempts]
                  /\ UNCHANGED attempts
          /\ lastOp' = [op |-> "isRateLimited", key |-> key]
  /\ UNCHANGED <<appVars, serverVars, loggerLogs, authState, storedSession, monitorDue,
                 timeout, fnCalls, now>>

\* RateLimiter.reset and resetAll.
LimiterReset ==
  /\ \E key \in LimiterKeys :
       /\ attempts[key].present
       /\ attempts' = [attempts EXCEPT ![key] = NoRecord]
       /\ lastOp' = [op |-> "reset", key |-> key]
  /\ UNCHANGED <<appVars, serverVars, loggerLogs, authState, storedSession, monitorDue,
                 timeout, fnCalls, result, now>>

LimiterResetAll ==
  /\ attempts # NoAttempts
  /\ attempts' = NoAttempts
  /\ lastOp' = [op |-> "resetAll", key |-> ""]
  /\ UNCHANGED <<appVars, serverVars, loggerLogs, authState, storedSession, monitorDue,
                 timeout, fnCalls, result, now>>

\* Time passes between two calls.
LimiterClock ==
  /\ now < StartTime + MaxLimiterSteps * LimiterStepMs
  /\ now' = now + LimiterStepMs
  /\ lastOp' = [op |-> "clock", key |-> ""]
  /\ UNCHANGED <<appVars, loggerLogs, utilVars, serverVars, result>>

LimiterNext ==
  \/ RecordAttempt
  \/ IsRateLimited
  \/ LimiterReset
  \/ LimiterResetAll
  \/ LimiterClock

LimiterSpec == Init /\ [][LimiterNext]_vars

\* -------------------------------------------------------- AuthProvider
SESSION_TIMEOUT_MS == 900000
MAX_LOGIN_ATTEMPTS == 5
LOCKOUT_DURATION_MS == 1800000
\* The period of the monitoring interval.
MonitorPeriodMs == 10000

\* VALID_CREDENTIALS, by e-mail address (hashData of two passwords is compared:
\* the model compares the passwords), and the e-mail addresses of the users.
VALID_CREDENTIALS ==
  [email \in {"sarah.c@govfleet.mil", "miller@ops.gov", "smith@ops.gov"} |->
     CASE email = "sarah.c@govfleet.mil" -> [password |-> "Admin123!", id |-> "u1"]
       [] email = "miller@ops.gov" -> [password |-> "Dispatch123!", id |-> "disp1"]
       [] OTHER -> [password |-> "Driver123!", id |-> "d1"]]
UserEmail ==
  [u \in UserIds |->
     CASE u = "u1" -> "sarah.c@govfleet.mil"
       [] u = "disp1" -> "miller@ops.gov"
       [] u = "d1" -> "smith@ops.gov"
       [] u = "d2" -> "k@ops.gov"
       [] OTHER -> "sparky@maint.gov"]

\* What the login form is given: the dispatcher's credentials, the same
\* address with a wrong password, and an address without credentials.
CredentialInputs ==
  {[email |-> "miller@ops.gov", password |-> "Dispatch123!"],
   [email |-> "miller@ops.gov", password |-> "wrong"],
   [email |-> "k@ops.gov", password |-> "Driver123!"]}

ValidCredentials(credentials) ==
  /\ credentials.email \in DOMAIN VALID_CREDENTIALS
  /\ VALID_CREDENTIALS[credentials.email].password = credentials.password

\* The user acts at these instants only; the interval runs between them.
UserInstant == ((now - StartTime) \div MonitorPeriodMs) % UserEveryPeriods = 0

\* The monitoring effect after a state change: when one of its dependencies
\* has changed, the interval is cleared and, if the session is authenticated,
\* a new one is set; otherwise the interval goes on and fires next at due.
MonitorAfter(old, new, due) ==
  IF <<old.isAuthenticated, old.lastActivity, old.isLockedOut, old.lockoutExpires>>
       # <<new.isAuthenticated, new.lastActivity, new.isLockedOut, new.lockoutExpires>>
  THEN IF new.isAuthenticated THEN now + MonitorPeriodMs ELSE 0
  ELSE due

\* The state logout installs, with the attempt counter carried over.
LoggedOutStateAttemptsKept ==
  [isAuthenticated |-> FALSE, user |-> NoUser, sessionToken |-> NoToken,
   lastActivity |-> now, loginAttempts |-> authState.loginAttempts,
   isLockedOut |-> FALSE, lockoutExpires |-> 0]

LoggedOutState ==
  [isAuthenticated |-> FALSE, user |-> NoUser, sessionToken |-> NoToken,
   lastActivity |-> now, loginAttempts |-> 0, isLockedOut |-> FALSE,
   lockoutExpires |-> 0]

\* timeSinceActivity > SESSION_TIMEOUT_MS, never true (for the check of C26).
timedOutNever(st) == FALSE

\* timeSinceActivity > SESSION_TIMEOUT_MS.
timedOut(st) == now - st.lastActivity > SESSION_TIMEOUT_MS

\* AuthProvider.login.
login(credentials) ==
  LET newAttempts == authState.loginAttempts + 1
      isLocked == newAttempts >= MAX_LOGIN_ATTEMPTS
  IN IF authState.isLockedOut
     THEN /\ result' = [kind |-> "login", value |-> FALSE]
          /\ UNCHANGED <<authState, storedSession>>
     ELSE IF ~ValidCredentials(credentials)
     THEN /\ authState' = [authState EXCEPT
                             !.loginAttempts = newAttempts,
                             !.isLockedOut = isLocked,
                             !.lockoutExpires =
                               IF isLocked THEN now + LOCKOUT_DURATION_MS ELSE 0]
          /\ result' = [kind |-> "login", value |-> FALSE]
          /\ UNCHANGED storedSession
     ELSE IF \A u \in UserIds : UserEmail[u] # credentials.email
     THEN /\ result' = [kind |-> "login", value |-> FALSE]
          /\ UNCHANGED <<authState, storedSession>>
     ELSE /\ storedSession' = TRUE
          /\ authState' =
               [isAuthenticated |-> TRUE,
                user |-> CHOOSE u \in UserIds : UserEmail[u] = credentials.email,
                sessionToken |-> <<"session", now>>,
                lastActivity |-> now, loginAttempts |-> 0,
                isLockedOut |-> FALSE, lockoutExpires |-> 0]
          /\ result' = [kind |-> "login", value |-> TRUE]

Login ==
  /\ UserInstant
  /\ \E credentials \in CredentialInputs :
       /\ login(credentials)
       /\ lastOp' = [op |-> "login", valid |-> ValidCredentials(credentials),
                     lockedWas |-> authState.isLockedOut,
                     attemptsWas |-> authState.loginAttempts]
  /\ monitorDue' = MonitorAfter(authState, authState', monitorDue)
  /\ UNCHANGED <<appVars, serverVars, loggerLogs, attempts, timeout, fnCalls, now>>

\* AuthProvider.logout, called by the user.
Logout ==
  /\ UserInstant
  /\ authState.isAuthenticated
  /\ storedSession' = FALSE
  /\ authState' = LoggedOutState
  /\ monitorDue' = MonitorAfter(authState, authState', monitorDue)
  /\ lastOp' = [op |-> "logout"]
  /\ UNCHANGED <<appVars, serverVars, loggerLogs, attempts, timeout, fnCalls, result, now>>

\* An activity event (mousedown, keydown, scroll, touchstart): the listeners
\* are registered while the session is authenticated.
updateActivity ==
  /\ UserInstant
  /\ authState.isAuthenticated
  /\ authState' = [authState EXCEPT !.lastActivity = now]
  /\ monitorDue' = MonitorAfter(authState, authState', monitorDue)
  /\ lastOp' = [op |-> "activity"]
  /\ UNCHANGED <<appVars, serverVars, loggerLogs, attempts, storedSession, timeout, fnCalls,
                 result, now>>

\* The callback of the monitoring interval, when the interval is due.
MonitorFires ==
  /\ monitorDue # 0
  /\ now = monitorDue
  /\ IF authState.isLockedOut /\ authState.lockoutExpires # 0
        /\ now > authState.lockoutExpires
     THEN /\ authState' = [authState EXCEPT !.isLockedOut = FALSE,
                                            !.lockoutExpires = 0,
                                            !.loginAttempts = 0]
          /\ lastOp' = [op |-> "monitor", outcome |-> "unlock",
                        lastActivity |-> authState.lastActivity,
                        sessionToken |-> authState.sessionToken]
          /\ UNCHANGED storedSession
     ELSE IF timedOut(authState)
     THEN /\ storedSession' = FALSE
          /\ authState' = LoggedOutState
          /\ lastOp' = [op |-> "monitor", outcome |-> "logout",
                        lastActivity |-> authState.lastActivity,
                        sessionToken |-> authState.sessionToken]
     ELSE /\ lastOp' = [op |-> "monitor", outcome |-> "none",
                        lastActivity |-> authState.lastActivity,
                        sessionToken |-> authState.sessionToken]
          /\ UNCHANGED <<authState, storedSession>>
  /\ monitorDue' = MonitorAfter(authState, authState', monitorDue + MonitorPeriodMs)
  /\ UNCHANGED <<appVars, serverVars, loggerLogs, attempts, timeout, fnCalls, result, now>>

\* Time passes, up to the instant the interval is due.
AuthClock ==
  /\ now < StartTime + MaxAuthPeriods * MonitorPeriodMs
  /\ monitorDue = 0 \/ now < monitorDue
  /\ now' = now + MonitorPeriodMs
  /\ lastOp' = [op |-> "clock"]
  /\ UNCHANGED <<appVars, loggerLogs, utilVars, serverVars, result>>

AuthNext ==
  \/ Login
  \/ Logout
  \/ updateActivity
  \/ MonitorFires
  \/ AuthClock

AuthSpec == Init /\ [][AuthNext]_vars

\* ------------------------------------------------------------ debounce
\* One debounced function, built as the test suite builds it, and the
\* arguments it is called with.
wait == 100
DebounceArgInputs == {"a", "b"}

\* executedFunction leaving a pending timer in place (for the check of C28).
executedFunctionKeepsTimer(args) ==
  timeout' = IF timeout.set THEN timeout
             ELSE [set |-> TRUE, due |-> now + wait, args |-> args]

\* executedFunction: clear the pending timer, set a new one for this call.
executedFunction(args) ==
  timeout' = [set |-> TRUE, due |-> now + wait, args |-> args]

\* A call of the debounced function.  lastOp records the call: when, with
\* what, how many calls there have been, and what the call before passed.
DebouncedCall ==
  /\ lastOp.op = "debouncedCall" => lastOp.seq < MaxDebounceCalls
  /\ \E args \in DebounceArgInputs :
       /\ executedFunction(args)
       /\ lastOp' = [op |-> "debouncedCall", at |-> now, args |-> args,
                     seq |-> IF lastOp.op = "debouncedCall"
                             THEN lastOp.seq + 1 ELSE 1,
                     prev |-> IF lastOp.op = "debouncedCall"
                              THEN lastOp.args ELSE ""]
  /\ UNCHANGED <<appVars, serverVars, loggerLogs, attempts, authState, storedSession,
                 monitorDue, fnCalls, result, now>>

\* later(), when the timer is due: func runs with the arguments of the call
\* that set the timer.  fnCalls records the run: when, with what, and the
\* number of the most recent call.
later ==
  /\ timeout.set
  /\ now = timeout.due
  /\ timeout' = NoTimeout
  /\ fnCalls' = Append(fnCalls, [at |-> now, args |-> timeout.args,
                                 call |-> lastOp.seq])
  /\ UNCHANGED <<appVars, serverVars, loggerLogs, attempts, authState, storedSession,
                 monitorDue, result, now, lastOp>>

\* Time passes: by one step, or up to the instant the timer is due if that
\* comes first.
DebounceClock ==
  /\ now < StartTime + MaxDebounceSteps * DebounceStepMs
  /\ ~timeout.set \/ now < timeout.due
  /\ now' = IF timeout.set THEN Min(now + DebounceStepMs, timeout.due)
            ELSE now + DebounceStepMs
  /\ UNCHANGED <<appVars, loggerLogs, utilVars, serverVars, result, lastOp>>

DebounceNext ==
  \/ DebouncedCall
  \/ later
  \/ DebounceClock

DebounceSpec == Init /\ [][DebounceNext]_vars

\* ------------------------------------------------------ WebSocket server
\* initializeWebSocketServer: the handlers registered on each connection.  A
\* socket connects once; its events reach the server while it is connected.
\* The token service (POST /api/auth/validate-token) is a remote process: it
\* answers with the user and role of a token it knows, rejects any other, or
\* fails.
TokenTable ==
  [token \in {"tok-d1", "tok-disp1"} |->
     IF token = "tok-d1" THEN [userId |-> "d1", role |-> "DRIVER"]
     ELSE [userId |-> "disp1", role |-> "DISPATCHER"]]
AuthenticateInputs ==
  { [token |-> "tok-d1", userId |-> "d1", role |-> "DRIVER"],
    [token |-> "tok-d1", userId |-> "disp1", role |-> "DISPATCHER"],
    [token |-> "forged", userId |-> "d1", role |-> "DRIVER"] }
ChannelInputs == {"tracking", "alerts"}
ServerUserInputs == {"d1", "disp1"}
ChatRecipientInputs == {Empty, "d1"}
TelemetryVehicleInputs == {"v1"}
VehicleChannel == [v \in TelemetryVehicleInputs |-> "vehicle_v1"]
TripChannel == "trip_t-101"

\* One socket.emit: the socket it is written to, the event, the socket whose
\* handler wrote it and the user the payload names (from / userId).
Msg(to, event, from, claimed) ==
  [to |-> to, event |-> event, from |-> from, claimed |-> claimed]

\* The clients Map, as the sequence of its entries in insertion order.
clientsHas(cs, s) == \E i \in DOMAIN cs : cs[i].id = s
NoClient == [id |-> Undefined, userId |-> Empty, subscriptions |-> {}]
clientsGet(cs, s) ==
  IF clientsHas(cs, s) THEN cs[CHOOSE i \in DOMAIN cs : cs[i].id = s] ELSE NoClient
clientsSet(cs, s, info) ==
  IF clientsHas(cs, s)
  THEN [i \in DOMAIN cs |-> IF cs[i].id = s THEN info ELSE cs[i]]
  ELSE Append(cs, info)
clientsDelete(cs, s) == SelectSeq(cs, LAMBDA c : c.id # s)

\* The guard every event handler opens with, skipped.
authenticatedClientUnchecked(s) == TRUE

\* The guard every event handler opens with: !(!client || !client.userId).
authenticatedClient(s) ==
  clientsHas(clients, s) /\ clientsGet(clients, s).userId # Empty

\* socket.emit("auth_required", ...) and return.
authRequired(s) ==
  /\ emitted' = {Msg(s, "auth_required", s, Empty)}
  /\ UNCHANGED <<clients, vehicleUpdates>>

broadcastToSubscribers(event, from, claimed, channels) ==
  { Msg(clients[i].id, event, from, claimed) :
      i \in {j \in DOMAIN clients : clients[j].subscriptions \cap channels # {}} }

\* What socket.disconnect(true) and a close by the client do to the server:
\* the socket is closed and its disconnect handler deletes it from the map.
\* Closing a closed socket does nothing.
clientsAfterDisconnect(s) ==
  IF sockets[s].state = "connected" THEN clientsDelete(clients, s) ELSE clients

\* io.on("connection"): the authentication timeout is set.
Connection ==
  /\ \E s \in SocketIds :
       /\ sockets[s].state = "idle"
       /\ sockets' = [sockets EXCEPT ![s] = [state |-> "connected",
                                             authTimeout |-> "set"]]
       /\ lastOp' = [op |-> "connection", socket |-> s]
  /\ emitted' = {}
  /\ UNCHANGED <<appVars, utilVars, loggerLogs, result, now, pendingAuth, clients,
                 vehicleUpdates>>

\* The authenticate handler up to its first await: the request to the token
\* service is on its way.
Authenticate ==
  /\ \E s \in SocketIds, data \in AuthenticateInputs :
       /\ sockets[s].state = "connected"
       /\ pendingAuth[s].stage = "none"
       /\ pendingAuth' = [pendingAuth EXCEPT ![s] =
                            [stage |-> "fetch", token |-> data.token,
                             userId |-> data.userId, role |-> data.role]]
       /\ lastOp' = [op |-> "authenticate", socket |-> s]
  /\ emitted' = {}
  /\ UNCHANGED <<appVars, utilVars, loggerLogs, result, now, sockets, clients,
                 vehicleUpdates>>

\* The handler from the reply of the token service to its second await, or to
\* its end when the request failed or the token was rejected.
TokenServiceReplies ==
  /\ \E s \in SocketIds, failed \in BOOLEAN :
       /\ pendingAuth[s].stage = "fetch"
       /\ IF failed \/ pendingAuth[s].token \notin DOMAIN TokenTable
          THEN /\ emitted' = {Msg(s, "auth_error", s, Empty)}
               /\ sockets' = [sockets EXCEPT ![s].state = "disconnected"]
               /\ clients' = clientsAfterDisconnect(s)
               /\ pendingAuth' = [pendingAuth EXCEPT ![s] = NoCall]
          ELSE /\ emitted' = {}
               /\ pendingAuth' = [pendingAuth EXCEPT ![s].stage = "json"]
               /\ UNCHANGED <<sockets, clients>>
       /\ lastOp' = [op |-> "tokenReply", socket |-> s]
  /\ UNCHANGED <<appVars, utilVars, loggerLogs, result, now, vehicleUpdates>>

\* The handler from the parsed reply to its end.
AuthDataArrives ==
  /\ \E s \in SocketIds, failed \in BOOLEAN :
       LET data == pendingAuth[s]
           authData == TokenTable[data.token]
       IN /\ data.stage = "json"
          /\ IF failed \/ authData.userId # data.userId \/ authData.role # data.role
             THEN /\ emitted' = {Msg(s, "auth_error", s, Empty)}
                  /\ sockets' = [sockets EXCEPT ![s].state = "disconnected"]
                  /\ clients' = clientsAfterDisconnect(s)
             ELSE /\ sockets' = [sockets EXCEPT ![s].authTimeout =
                                   IF @ = "set" THEN "cleared" ELSE @]
                  /\ clients' = clientsSet(clients, s,
                                           [id |-> s, userId |-> data.userId,
                                            subscriptions |-> {"general"}])
                  /\ emitted' = {Msg(s, "state_sync", s, Empty)}
          /\ pendingAuth' = [pendingAuth EXCEPT ![s] = NoCall]
          /\ lastOp' = [op |-> "authData", socket |-> s]
  /\ UNCHANGED <<appVars, utilVars, loggerLogs, result, now, vehicleUpdates>>

\* The authentication timeout fires: socket.disconnect(true).
AuthTimeoutFires ==
  /\ \E s \in SocketIds :
       /\ sockets[s].authTimeout = "set"
       /\ sockets' = [sockets EXCEPT ![s] = [state |-> "disconnected",
                                             authTimeout |-> "fired"]]
       /\ clients' = clientsAfterDisconnect(s)
       /\ lastOp' = [op |-> "authTimeout", socket |-> s]
  /\ emitted' = {}
  /\ UNCHANGED <<appVars, utilVars, loggerLogs, result, now, pendingAuth,
                 vehicleUpdates>>

\* The client closes the connection: the disconnect handler runs.
SocketDisconnect ==
  /\ \E s \in SocketIds :
       /\ sockets[s].state = "connected"
       /\ sockets' = [sockets EXCEPT ![s].state = "disconnected"]
       /\ clients' = clientsDelete(clients, s)
       /\ lastOp' = [op |-> "disconnect", socket |-> s]
  /\ emitted' = {}
  /\ UNCHANGED <<appVars, utilVars, loggerLogs, result, now, pendingAuth,
                 vehicleUpdates>>

\* An event of a connected socket, as lastOp records it.
ServerEvent(name, s, claimed) ==
  [op |-> "event", name |-> name, socket |-> s, claimed |-> claimed]

Subscribe ==
  /\ \E s \in SocketIds, channel \in ChannelInputs :
       /\ sockets[s].state = "connected"
       /\ IF ~authenticatedClient(s) THEN authRequired(s)
          ELSE /\ clients' = [i \in DOMAIN clients |->
                                IF clients[i].id = s
                                THEN [clients[i] EXCEPT
                                        !.subscriptions = @ \cup {channel}]
                                ELSE clients[i]]
               /\ emitted' = {}
               /\ UNCHANGED vehicleUpdates
       /\ lastOp' = ServerEvent("subscribe", s, Empty)
  /\ UNCHANGED <<appVars, utilVars, loggerLogs, result, now, sockets, pendingAuth>>

Unsubscribe ==
  /\ \E s \in SocketIds, channel \in ChannelInputs :
       /\ sockets[s].state = "connected"
       /\ IF ~authenticatedClient(s) THEN authRequired(s)
          ELSE /\ clients' = [i \in DOMAIN clients |->
                                IF clients[i].id = s
                                THEN [clients[i] EXCEPT
                                        !.subscriptions = @ \ {channel}]
                                ELSE clients[i]]
               /\ emitted' = {}
               /\ UNCHANGED vehicleUpdates
       /\ lastOp' = ServerEvent("unsubscribe", s, Empty)
  /\ UNCHANGED <<appVars, utilVars, loggerLogs, result, now, sockets, pendingAuth>>

\* vehicle_telemetry: an update is merged into the entry the map holds for the
\* vehicle and broadcast; a vehicle without an entry is passed over.
VehicleTelemetry ==
  /\ \E s \in SocketIds, vehicleId \in TelemetryVehicleInputs, speed \in {OnMissionBaseSpeed} :
       /\ sockets[s].state = "connected"
       /\ IF ~authenticatedClient(s) THEN authRequired(s)
          ELSE IF \E e \in vehicleUpdates : e.vehicleId = vehicleId
          THEN /\ vehicleUpdates' =
                    {e \in vehicleUpdates : e.vehicleId # vehicleId}
                    \cup {[vehicleId |-> vehicleId, speed |-> speed]}
               /\ emitted' = broadcastToSubscribers(
                                "vehicle_update", s, Empty,
                                {"fleet", VehicleChannel[vehicleId]})
               /\ UNCHANGED clients
          ELSE /\ emitted' = {}
               /\ UNCHANGED <<clients, vehicleUpdates>>
       /\ lastOp' = ServerEvent("vehicle_telemetry", s, Empty)
  /\ UNCHANGED <<appVars, utilVars, loggerLogs, result, now, sockets, pendingAuth>>

IncidentReport ==
  /\ \E s \in SocketIds :
       /\ sockets[s].state = "connected"
       /\ IF ~authenticatedClient(s) THEN authRequired(s)
          ELSE /\ emitted' =
                    broadcastToSubscribers("incident_new", s, Empty,
                                           {"incidents", "alerts"})
                    \cup broadcastToSubscribers("push_notification", s, Empty,
                                                {"alerts"})
               /\ UNCHANGED <<clients, vehicleUpdates>>
       /\ lastOp' = ServerEvent("incident_report", s, Empty)
  /\ UNCHANGED <<appVars, utilVars, loggerLogs, result, now, sockets, pendingAuth>>

TripUpdate ==
  /\ \E s \in SocketIds :
       /\ sockets[s].state = "connected"
       /\ IF ~authenticatedClient(s) THEN authRequired(s)
          ELSE /\ emitted' = broadcastToSubscribers("trip_update", s, Empty,
                                                    {"missions", TripChannel})
               /\ UNCHANGED <<clients, vehicleUpdates>>
       /\ lastOp' = ServerEvent("trip_update", s, Empty)
  /\ UNCHANGED <<appVars, utilVars, loggerLogs, result, now, sockets, pendingAuth>>

ShareLocation ==
  /\ \E s \in SocketIds, userId \in ServerUserInputs :
       /\ sockets[s].state = "connected"
       /\ IF ~authenticatedClient(s) THEN authRequired(s)
          ELSE IF userId # clientsGet(clients, s).userId
          THEN /\ emitted' = {Msg(s, "auth_error", s, Empty)}
               /\ UNCHANGED <<clients, vehicleUpdates>>
          ELSE /\ emitted' = broadcastToSubscribers("user_location", s, userId,
                                                    {"tracking"})
               /\ UNCHANGED <<clients, vehicleUpdates>>
       /\ lastOp' = ServerEvent("share_location", s, userId)
  /\ UNCHANGED <<appVars, utilVars, loggerLogs, result, now, sockets, pendingAuth>>

\* chat_message: to the first client of the map that is the recipient, or to
\* the subscribers of the channel when no recipient is named.
ChatMessage ==
  /\ \E s \in SocketIds, from \in ServerUserInputs, to \in ChatRecipientInputs :
       /\ sockets[s].state = "connected"
       /\ IF ~authenticatedClient(s) THEN authRequired(s)
          ELSE IF from # clientsGet(clients, s).userId
          THEN /\ emitted' = {Msg(s, "auth_error", s, Empty)}
               /\ UNCHANGED <<clients, vehicleUpdates>>
          ELSE IF Truthy(to)
          THEN /\ emitted' =
                    IF \E i \in DOMAIN clients : clients[i].userId = to
                    THEN LET k == CHOOSE i \in DOMAIN clients :
                                    /\ clients[i].userId = to
                                    /\ \A j \in 1..(i - 1) : clients[j].userId # to
                         IN {Msg(clients[k].id, "chat_message", s, from)}
                    ELSE {}
               /\ UNCHANGED <<clients, vehicleUpdates>>
          ELSE /\ emitted' = broadcastToSubscribers("chat_message", s, from,
                                                    {"general"})
               /\ UNCHANGED <<clients, vehicleUpdates>>
       /\ lastOp' = ServerEvent("chat_message", s, from)
  /\ UNCHANGED <<appVars, utilVars, loggerLogs, result, now, sockets, pendingAuth>>

ServerNext ==
  \/ Connection
  \/ Authenticate
  \/ TokenServiceReplies
  \/ AuthDataArrives
  \/ AuthTimeoutFires
  \/ SocketDisconnect
  \/ Subscribe
  \/ Unsubscribe
  \/ VehicleTelemetry
  \/ IncidentReport
  \/ TripUpdate
  \/ ShareLocation
  \/ ChatMessage

ServerSpec == Init /\ [][ServerNext]_vars

\* ================================================================ claims
ActiveStatuses == {"DISPATCHED", "EN_ROUTE_PICKUP", "ARRIVED_PICKUP", "IN_PROGRESS"}
TerminalStatuses == {"COMPLETED", "CANCELLED", "RESCHEDULED"}
TripOps == {"createTrip", "advanceTrip", "completeTrip", "cancelTrip", "editTrip"}

ActiveTripsOfVehicle(v) ==
  {i \in DOMAIN trips : trips[i].vehicleId = v /\ trips[i].status \in ActiveStatuses}
OpenTripsOfDriver(d) ==
  {i \in DOMAIN trips : trips[i].driverId = d /\ trips[i].status \notin TerminalStatuses}
ActiveTripsOfDriver(d) ==
  {i \in DOMAIN trips : trips[i].driverId = d /\ trips[i].status \in ActiveStatuses}

\* C1: in every reachable state a vehicle is ON_MISSION exactly when one trip
\* in DISPATCHED, EN_ROUTE_PICKUP, ARRIVED_PICKUP or IN_PROGRESS names it.
C1_VehicleOnMissionIffOneActiveTrip ==
  \A v \in VehicleIds :
    vehicles[v].status = "ON_MISSION" <=> Cardinality(ActiveTripsOfVehicle(v)) = 1

\* C2: in every reachable state a driver is BUSY exactly when one non-terminal
\* trip has that driver as its driverId.
C2_DriverBusyIffOneOpenTrip ==
  \A d \in UserIds :
    users[d] = "BUSY" <=> Cardinality(OpenTripsOfDriver(d)) = 1

\* C3: a vehicle that is OUT_OF_SERVICE is still OUT_OF_SERVICE after any
\* createTrip, advanceTrip, completeTrip, cancelTrip or editTrip.
C3_OutOfServiceSurvivesTripOps ==
  [][lastOp'.op \in TripOps =>
       \A v \in VehicleIds :
         vehicles[v].status = "OUT_OF_SERVICE" => vehicles'[v].status = "OUT_OF_SERVICE"]_vars

\* C4: a createTrip naming a vehicle that is not ACTIVE or a driver that is not
\* ONLINE adds no trip, changes no vehicle and no driver and appends no audit
\* entry.
C4_CreateTripAdmissionControl ==
  [][(/\ lastOp'.op = "createTrip"
      /\ \/ lastOp'.vehicleWas # "ACTIVE"
         \/ lastOp'.driverWas # "ONLINE")
     => /\ trips' = trips
        /\ vehicles' = vehicles
        /\ users' = users
        /\ auditLogs' = auditLogs]_vars

\* C5: a createTrip with an ACTIVE vehicle and an ONLINE driver adds exactly one
\* trip, in DISPATCHED, sets that vehicle ON_MISSION with etaMinutes equal to the
\* trip's estimatedDurationMin, sets that driver BUSY, changes no other vehicle
\* or driver, and appends exactly one DISPATCH_CREATED audit entry.
C5_CreateTripEffect ==
  [][(/\ lastOp'.op = "createTrip"
      /\ lastOp'.vehicleWas = "ACTIVE"
      /\ lastOp'.driverWas = "ONLINE")
     => LET v == lastOp'.vehicleId
            d == lastOp'.driverId
        IN /\ Len(trips') = Len(trips) + 1
           /\ Tail(trips') = trips
           /\ Head(trips').status = "DISPATCHED"
           /\ Head(trips').vehicleId = v
           /\ Head(trips').driverId = d
           /\ vehicles'[v] =
                [vehicles[v] EXCEPT
                   !.status = "ON_MISSION",
                   !.etaMinutes = Head(trips').estimatedDurationMin * EtaScale]
           /\ \A w \in VehicleIds \ {v} : vehicles'[w] = vehicles[w]
           /\ users'[d] = "BUSY"
           /\ \A u \in UserIds \ {d} : users'[u] = users[u]
           /\ Len(auditLogs') = Len(auditLogs) + 1
           /\ Tail(auditLogs') = auditLogs
           /\ Head(auditLogs').action = "DISPATCH_CREATED"]_vars

\* A createTrip that found its vehicle ACTIVE and its driver ONLINE has run.
C5_Witness ==
  /\ lastOp.op = "createTrip"
  /\ lastOp.vehicleWas = "ACTIVE"
  /\ lastOp.driverWas = "ONLINE"
  /\ Head(trips).id = lastOp.id
  /\ vehicles[lastOp.vehicleId].status = "ON_MISSION"
  /\ users[lastOp.driverId] = "BUSY"

\* C6: no reachable state has two trips in DISPATCHED, EN_ROUTE_PICKUP,
\* ARRIVED_PICKUP or IN_PROGRESS that name the same vehicle or the same driver.
C6_NoDoubleBooking ==
  /\ \A v \in VehicleIds : Cardinality(ActiveTripsOfVehicle(v)) <= 1
  /\ \A d \in UserIds : Cardinality(ActiveTripsOfDriver(d)) <= 1

\* One step forward in the dispatch sequence.
ForwardStep(from, to) ==
  \/ from = "DISPATCHED" /\ to = "EN_ROUTE_PICKUP"
  \/ from = "EN_ROUTE_PICKUP" /\ to = "ARRIVED_PICKUP"
  \/ from = "ARRIVED_PICKUP" /\ to = "IN_PROGRESS"
  \/ from = "IN_PROGRESS" /\ to = "COMPLETED"

\* C7: whenever an operation changes the status of a trip in the store, the
\* change is one step forward in DISPATCHED -> EN_ROUTE_PICKUP -> ARRIVED_PICKUP
\* -> IN_PROGRESS -> COMPLETED or a cancellation from a non-terminal status.
C7_OnlyLegalTransitions ==
  [][Len(trips') = Len(trips) =>
       \A i \in DOMAIN trips :
         trips'[i].status # trips[i].status =>
           \/ ForwardStep(trips[i].status, trips'[i].status)
           \/ /\ trips'[i].status = "CANCELLED"
              /\ trips[i].status \notin TerminalStatuses]_vars

\* C8: a trip that is COMPLETED, CANCELLED or RESCHEDULED stays in the store
\* with every field unchanged, whatever operation runs.
C8_TerminalTripsAbsorbing ==
  [][\A i \in DOMAIN trips :
       trips[i].status \in TerminalStatuses =>
         IF Len(trips') >= Len(trips)
         THEN trips'[i + Len(trips') - Len(trips)] = trips[i]
         ELSE \E j \in DOMAIN trips' : trips'[j] = trips[i]]_vars

\* C9: completeTrip on a non-terminal trip with a vehicle and a driver sets the
\* trip COMPLETED, the driver ONLINE and the vehicle ACTIVE with etaMinutes 0,
\* except that an OUT_OF_SERVICE vehicle stays OUT_OF_SERVICE; no other vehicle
\* or driver changes.
C9_CompleteTripReleases ==
  [][(/\ lastOp'.op = "completeTrip"
      /\ lastOp'.tripWas \notin TerminalStatuses
      /\ lastOp'.vehicleId \in VehicleIds
      /\ lastOp'.driverId \in UserIds)
     => LET v == lastOp'.vehicleId
            d == lastOp'.driverId
        IN /\ \A i \in DOMAIN trips' :
                trips'[i].id = lastOp'.id => trips'[i].status = "COMPLETED"
           /\ IF vehicles[v].status = "OUT_OF_SERVICE"
              THEN vehicles'[v].status = "OUT_OF_SERVICE"
              ELSE vehicles'[v].status = "ACTIVE" /\ vehicles'[v].etaMinutes = 0
           /\ users'[d] = "ONLINE"
           /\ \A w \in VehicleIds \ {v} : vehicles'[w] = vehicles[w]
           /\ \A u \in UserIds \ {d} : users'[u] = users[u]]_vars

\* C10: cancelTrip on a non-terminal trip leaves the trip in the store with
\* status CANCELLED, its vehicle ACTIVE with etaMinutes 0 and its driver ONLINE.
C10_CancelTripReleases ==
  [][(lastOp'.op = "cancelTrip" /\ lastOp'.tripWas \notin TerminalStatuses)
     => /\ \E i \in DOMAIN trips' :
             trips'[i].id = lastOp'.id /\ trips'[i].status = "CANCELLED"
        /\ lastOp'.vehicleId \in VehicleIds =>
             /\ vehicles'[lastOp'.vehicleId].status = "ACTIVE"
             /\ vehicles'[lastOp'.vehicleId].etaMinutes = 0
        /\ lastOp'.driverId \in UserIds => users'[lastOp'.driverId] = "ONLINE"]_vars

C14_EtaNeverIncreases ==
  [][\A v \in VehicleIds :
       /\ (/\ lastOp'.op = "tick"
           /\ vehicles[v].status = "ON_MISSION"
           /\ vehicles'[v].status = "ON_MISSION")
          => /\ vehicles'[v].etaMinutes <= OrZero(vehicles[v].etaMinutes)
             /\ vehicles'[v].etaMinutes >= 0
       /\ OrZero(vehicles'[v].etaMinutes) > OrZero(vehicles[v].etaMinutes)
          => lastOp'.op = "createTrip" /\ lastOp'.vehicleId = v]_vars

\* A tick has run on a vehicle on mission whose ETA had run out, and the ETA
\* of a vehicle dispatched during the run has come down from the trip's
\* estimate.
C14_Witness ==
  /\ lastOp.op = "tick"
  /\ ticks > MOCK_VEHICLES["v1"].etaMinutes
  /\ vehicles["v1"].status = "ON_MISSION"
  /\ vehicles["v1"].etaMinutes = 0
  /\ \E v \in VehicleIds \ {"v1"} :
       /\ vehicles[v].status = "ON_MISSION"
       /\ vehicles[v].etaMinutes > 0
       /\ vehicles[v].etaMinutes < WizardEstimatedDurationMin * EtaScale

\* C15: a telemetry tick changes the status of no vehicle, changes no trip,
\* driver, incident, request or audit entry, and leaves every field of every
\* MAINTENANCE or OUT_OF_SERVICE vehicle as it was.
C15_TickFrame ==
  [][lastOp'.op = "tick" =>
       /\ \A v \in VehicleIds :
            /\ vehicles'[v].status = vehicles[v].status
            /\ vehicles[v].status \in {"MAINTENANCE", "OUT_OF_SERVICE"}
               => vehicles'[v] = vehicles[v]
       /\ trips' = trips
       /\ users' = users
       /\ incidents' = incidents
       /\ incomingRequests' = incomingRequests
       /\ auditLogs' = auditLogs]_vars

\* A tick has run over a fleet with a vehicle in MAINTENANCE, one
\* OUT_OF_SERVICE and one it moved.
C15_Witness ==
  /\ lastOp.op = "tick"
  /\ \E v \in VehicleIds : vehicles[v].status = "MAINTENANCE"
  /\ \E v \in VehicleIds : vehicles[v].status = "OUT_OF_SERVICE"
  /\ \E v \in VehicleIds : vehicles[v].x # MOCK_VEHICLES[v].x

\* The operations that change the store and succeed whenever they are issued.
SingleEntryOps ==
  {"createTrip", "advanceTrip", "completeTrip", "cancelTrip", "editTrip",
   "acknowledgeIncident", "assignIncident", "approveRequest", "rejectRequest"}

\* C16: createTrip, every advanceTrip step, completeTrip with or without
\* feedback, cancelTrip, editTrip, acknowledgeIncident, assignIncident,
\* approveRequest and rejectRequest each append exactly one audit entry; a
\* reportIncident appends two when its severity is CRITICAL and one otherwise.
C16_OneAuditEntryPerOperation ==
  [][/\ lastOp'.op \in SingleEntryOps /\ lastOp'.status # "RESOLVED"
        => Len(auditLogs') = Len(auditLogs) + 1 /\ Tail(auditLogs') = auditLogs
     /\ lastOp'.op = "reportIncident"
        => IF lastOp'.status = "CRITICAL"
           THEN /\ Len(auditLogs') = Len(auditLogs) + 2
                /\ SubSeq(auditLogs', 3, Len(auditLogs')) = auditLogs
           ELSE /\ Len(auditLogs') = Len(auditLogs) + 1
                /\ Tail(auditLogs') = auditLogs]_vars

\* The call recorded in op names an id the store does not hold.
NamesUnknownId(op) ==
  \/ /\ op.op \in {"advanceTrip", "completeTrip", "editTrip"}
     /\ \A i \in DOMAIN trips : trips[i].id # op.id
  \/ /\ op.op = "createTrip"
     /\ op.vehicleId \notin VehicleIds \/ op.driverId \notin UserIds
  \/ /\ op.op \in {"acknowledgeIncident", "assignIncident"}
     /\ \A i \in DOMAIN incidents : incidents[i].id # op.id
  \/ /\ op.op \in {"approveRequest", "rejectRequest"}
     /\ \A i \in DOMAIN incomingRequests : incomingRequests[i].id # op.id

\* C17: an operation naming a trip, vehicle, driver, incident or request id
\* that is not in the store leaves the store as it was and appends no audit
\* entry.
C17_UnknownIdChangesNothing ==
  [][NamesUnknownId(lastOp') =>
       /\ trips' = trips
       /\ vehicles' = vehicles
       /\ users' = users
       /\ incidents' = incidents
       /\ incomingRequests' = incomingRequests
       /\ auditLogs' = auditLogs]_vars

\* C18: every audit entry, once appended, is in the ledger with every field
\* unchanged in every later state: each step keeps the entries of the App's
\* audit log and of the AuditLogger as they are and in their order, and only
\* adds entries after them.
C18_LedgerAppendOnly ==
  [][/\ Len(auditLogs') >= Len(auditLogs)
     /\ SubSeq(auditLogs', Len(auditLogs') - Len(auditLogs) + 1, Len(auditLogs'))
          = auditLogs
     /\ Len(loggerLogs') >= Len(loggerLogs)
     /\ SubSeq(loggerLogs', 1, Len(loggerLogs)) = loggerLogs]_vars

\* C19: the timestamps of the audit entries are strictly increasing in the
\* order the entries were appended, the initial entries included (the App's
\* audit log is newest first, the AuditLogger's oldest first).
C19_TimestampsStrictlyIncreasing ==
  /\ \A i, j \in DOMAIN auditLogs :
       i < j => auditLogs[i].timestamp > auditLogs[j].timestamp
  /\ \A i, j \in DOMAIN loggerLogs :
       i < j => loggerLogs[i].timestamp < loggerLogs[j].timestamp

\* C20: approveRequest on a PENDING request adds exactly one trip, SCHEDULED,
\* with no vehicle and no driver and with the request's pickup, dropoff, time
\* and priority; the request is kept marked APPROVED and is no longer among the
\* pending ones; exactly one audit entry is appended; no vehicle and no driver
\* changes.
C20_ApproveRequestEffect ==
  [][lastOp'.op = "approveRequest" /\ lastOp'.status = "PENDING" =>
       LET request == incomingRequests[FindRequest(lastOp'.id)]
       IN /\ request.status = "PENDING"
          /\ Len(trips') = Len(trips) + 1
          /\ Tail(trips') = trips
          /\ Head(trips').status = "SCHEDULED"
          /\ ~Truthy(Head(trips').vehicleId)
          /\ ~Truthy(Head(trips').driverId)
          /\ Head(trips').pickupLocation = request.pickupLocation
          /\ Head(trips').dropoffLocation = request.dropoffLocation
          /\ Head(trips').pickupTime = request.requestedTime
          /\ Head(trips').priority = request.priority
          /\ \A i \in DOMAIN incomingRequests' :
               incomingRequests'[i].id = lastOp'.id
                 => incomingRequests'[i].status # "PENDING"
          /\ \E i \in DOMAIN incomingRequests' :
               /\ incomingRequests'[i].id = lastOp'.id
               /\ incomingRequests'[i].status = "APPROVED"
          /\ Len(auditLogs') = Len(auditLogs) + 1
          /\ Tail(auditLogs') = auditLogs
          /\ vehicles' = vehicles
          /\ users' = users]_vars

C23_MaintenanceVehicleNotReset ==
  [][(/\ lastOp'.op \in {"completeTrip", "cancelTrip"}
      /\ lastOp'.vehicleWas = "MAINTENANCE")
       => vehicles'[lastOp'.vehicleId].status = "MAINTENANCE"]_vars

\* C24: a recordAttempt call is allowed exactly when it is one of the first
\* maxAttempts calls for its key in the key's current window; a rejected call
\* reports remaining = 0; a call never changes the record of another key.
C24_FirstNAttemptsAllowed ==
  [][lastOp'.op = "recordAttempt" =>
       LET key == lastOp'.key
           record == attempts[key]
           nth == IF record.present /\ now <= record.resetTime
                  THEN record.count + 1 ELSE 1
       IN /\ result'.allowed = (nth <= maxAttempts)
          /\ ~result'.allowed => result'.remaining = 0
          /\ \A k \in LimiterKeys \ {key} : attempts'[k] = attempts[k]]_vars

\* C25: the fifth failed login in a row locks the account for
\* LOCKOUT_DURATION_MS; every login during the lockout is rejected, valid
\* credentials included; the lockout has ended (isLockedOut false,
\* loginAttempts 0) by the first poll after the 30 minutes, so that a login
\* with valid credentials succeeds from then on.
C25_LockoutEndsAfterThirtyMinutes ==
  [][/\ (lastOp'.op = "login" /\ ~lastOp'.lockedWas /\ ~lastOp'.valid
          /\ lastOp'.attemptsWas + 1 >= MAX_LOGIN_ATTEMPTS)
        => /\ authState'.isLockedOut
           /\ authState'.lockoutExpires = now + LOCKOUT_DURATION_MS
     /\ (lastOp'.op = "login" /\ authState.isLockedOut
          /\ now <= authState.lockoutExpires)
        => /\ result'.value = FALSE
           /\ authState' = authState
     /\ authState'.isLockedOut
        => now' <= authState'.lockoutExpires + MonitorPeriodMs
     /\ (lastOp'.op = "login" /\ lastOp'.valid
          /\ now > authState.lockoutExpires + MonitorPeriodMs)
        => /\ result'.value = TRUE
           /\ authState'.isAuthenticated]_vars

\* C26: an authenticated session is logged out by the monitor once there has
\* been no activity for more than SESSION_TIMEOUT_MS, at the latest two polls
\* after the deadline, and never earlier; the logout leaves isAuthenticated
\* false, no user, no session token and no stored session; an activity event
\* restarts the period from the instant it happens.
C26_IdleSessionLoggedOut ==
  [][/\ authState'.isAuthenticated
        => now' - authState'.lastActivity <= SESSION_TIMEOUT_MS + 2 * MonitorPeriodMs
     /\ (lastOp'.op = "monitor" /\ lastOp'.outcome = "logout")
        => /\ now - authState.lastActivity > SESSION_TIMEOUT_MS
           /\ ~authState'.isAuthenticated
           /\ authState'.user = NoUser
           /\ authState'.sessionToken = NoToken
           /\ ~storedSession'
     /\ (authState.isAuthenticated /\ ~authState'.isAuthenticated)
        => \/ lastOp'.op = "logout"
           \/ lastOp'.op = "monitor" /\ lastOp'.outcome = "logout"
     /\ lastOp'.op = "activity"
        => authState'.isAuthenticated /\ authState'.lastActivity = now]_vars

\* The monitor has logged out a session whose last activity came after its
\* login.
C26_Witness ==
  /\ lastOp.op = "monitor"
  /\ lastOp.outcome = "logout"
  /\ lastOp.lastActivity > lastOp.sessionToken[2]
  /\ now - lastOp.lastActivity > SESSION_TIMEOUT_MS
  /\ ~authState.isAuthenticated
  /\ ~storedSession

\* C27: getRecentLogs(n) returns the min(n, L) most recent entries of a ledger
\* of length L, in log order, for every n >= 0; getLogsByActor and
\* getLogsByAction return the entries with that actorId, or that action, in
\* log order, and no others.
C27_RecentLogsAndFilters ==
  [][/\ lastOp'.op = "getRecentLogs"
        => LET L == Len(loggerLogs)
               m == Min(lastOp'.count, L)
           IN result'.value = SubSeq(loggerLogs, L - m + 1, L)
     /\ lastOp'.op = "getLogsByActor"
        => result'.value =
             SelectSeq(loggerLogs, LAMBDA e : e.actorId = lastOp'.actorId)
     /\ lastOp'.op = "getLogsByAction"
        => result'.value =
             SelectSeq(loggerLogs, LAMBDA e : e.action = lastOp'.action)]_vars

\* C28: the debounced function runs only wait after the most recent call, with
\* that call's arguments, and once for it: never before wait has elapsed since
\* the most recent call, never for a call that another call followed within
\* wait, and always by the time wait has elapsed since the last call.
C28_DebounceRunsOnceAfterBurst ==
  [][/\ fnCalls' # fnCalls
        => /\ fnCalls' = Append(fnCalls, fnCalls'[Len(fnCalls')])
           /\ lastOp.op = "debouncedCall"
           /\ fnCalls'[Len(fnCalls')].at = lastOp.at + wait
           /\ fnCalls'[Len(fnCalls')].at = now
           /\ fnCalls'[Len(fnCalls')].args = lastOp.args
           /\ \A i \in DOMAIN fnCalls : fnCalls[i].call # lastOp.seq
     /\ (lastOp'.op = "debouncedCall" /\ now' > lastOp'.at + wait)
        => \E i \in DOMAIN fnCalls' : fnCalls'[i].call = lastOp'.seq]_vars

\* A burst of two calls, half of wait apart, with different arguments: the
\* function has run once, wait after the second call, with its arguments.
C28_Witness ==
  /\ lastOp.op = "debouncedCall"
  /\ lastOp.seq = 2
  /\ lastOp.at = StartTime + DebounceStepMs
  /\ lastOp.prev # lastOp.args
  /\ Len(fnCalls) = 1
  /\ fnCalls[1].args = lastOp.args
  /\ fnCalls[1].at = lastOp.at + wait
  /\ now > fnCalls[1].at

\* C29: an advanceTrip to EN_ROUTE_PICKUP, ARRIVED_PICKUP or IN_PROGRESS
\* changes the status of the trip it is issued on and nothing else of the
\* store: no other field of the trip, no other trip, no vehicle, no driver, no
\* incident and no request; it appends one audit entry on entry to
\* IN_PROGRESS and none otherwise.
C29_AdvanceTripFrame ==
  [][lastOp'.op = "advanceTrip" =>
       /\ trips' = [trips EXCEPT ![ActiveTripIndex].status = lastOp'.status]
       /\ vehicles' = vehicles
       /\ users' = users
       /\ incidents' = incidents
       /\ incomingRequests' = incomingRequests
       /\ IF lastOp'.status = "IN_PROGRESS"
          THEN Len(auditLogs') = Len(auditLogs) + 1 /\ Tail(auditLogs') = auditLogs
          ELSE auditLogs' = auditLogs]_vars

C31_TickReadsCommittedRecord ==
  [][lastOp'.op = "tick" =>
       \A v \in VehicleIds :
         /\ vehicles'[v].status = vehicles[v].status
         /\ vehicles'[v].assignedDriverId = vehicles[v].assignedDriverId
         /\ vehicles'[v].etaMinutes =
              IF vehicles[v].status = "ON_MISSION"
              THEN Max(0, OrZero(vehicles[v].etaMinutes) - 1)
              ELSE IF vehicles[v].status = "ACTIVE"
                   THEN OrZero(vehicles[v].etaMinutes)
                   ELSE vehicles[v].etaMinutes]_vars

\* A tick has run after a dispatch put a vehicle of the starting fleet
\* ON_MISSION: the vehicle is still ON_MISSION and its ETA is the trip's
\* estimate less one step.
C31_Witness ==
  /\ lastOp.op = "tick"
  /\ \E v \in VehicleIds :
       /\ MOCK_VEHICLES[v].status = "ACTIVE"
       /\ vehicles[v].status = "ON_MISSION"
       /\ vehicles[v].etaMinutes = WizardEstimatedDurationMin * EtaScale - 1


\* The widths of the two speed draws of the tick: floor(random * 10) on
\* mission, floor(random * 20) otherwise.
OnMissionSpeedSpread == 10
ActiveSpeedSpread == 20

\* C32: after a tick an ACTIVE vehicle is either stationary (speed 0 and
\* standbyTime one more than before) or moving (speed above 0 and standbyTime
\* 0), never both and never neither; an ON_MISSION vehicle has standbyTime 0
\* and a speed in a range that lies strictly above every speed an ACTIVE
\* vehicle can be given.
C32_TickShapes ==
  [][lastOp'.op = "tick" =>
       \A v \in VehicleIds :
         LET stationary == /\ vehicles'[v].speed = 0
                           /\ vehicles'[v].standbyTime = OrZero(vehicles[v].standbyTime) + 1
             moving == /\ vehicles'[v].speed > 0
                       /\ vehicles'[v].standbyTime = 0
         IN /\ vehicles'[v].status = "ACTIVE"
               => /\ stationary \/ moving
                  /\ ~(stationary /\ moving)
                  /\ vehicles'[v].speed < ActiveBaseSpeed + ActiveSpeedSpread
            /\ vehicles'[v].status = "ON_MISSION"
               => /\ vehicles'[v].standbyTime = 0
                  /\ vehicles'[v].speed >= OnMissionBaseSpeed
                  /\ vehicles'[v].speed < OnMissionBaseSpeed + OnMissionSpeedSpread
                  /\ OnMissionBaseSpeed >= ActiveBaseSpeed + ActiveSpeedSpread]_vars

\* A tick has left one ACTIVE vehicle stationary for the second time running,
\* another ACTIVE vehicle moving at the top of its range after a stationary
\* tick, and an ON_MISSION vehicle at the bottom of its range.
C32_Witness ==
  /\ lastOp.op = "tick"
  /\ ticks = 2
  /\ \E v \in VehicleIds :
       /\ vehicles[v].status = "ACTIVE"
       /\ vehicles[v].speed = 0
       /\ vehicles[v].standbyTime = OrZero(MOCK_VEHICLES[v].standbyTime) + 2
  /\ \E v \in VehicleIds :
       /\ vehicles[v].status = "ACTIVE"
       /\ vehicles[v].speed = ActiveBaseSpeed + ActiveSpeedSpread - 1
       /\ vehicles[v].standbyTime = 0
  /\ \E v \in VehicleIds :
       /\ vehicles[v].status = "ON_MISSION"
       /\ vehicles[v].speed = OnMissionBaseSpeed


\* C33: after any number of ticks from the positions the fleet starts at, the
\* x and the y of every ACTIVE or ON_MISSION vehicle lie within [0, 100].
C33_PositionsInsideMap ==
  \A v \in VehicleIds :
    vehicles[v].status \in {"ACTIVE", "ON_MISSION"}
    => /\ vehicles[v].x >= 0 /\ vehicles[v].x <= MapMax
       /\ vehicles[v].y >= 0 /\ vehicles[v].y <= MapMax

\* After enough ticks the moves of one vehicle would have carried it past the
\* east edge and those of another past the south edge: both sit on the edge.
C33_Witness ==
  /\ lastOp.op = "tick"
  /\ \E v \in VehicleIds, d \in DispatchDraws :
       /\ vehicles[v].status \in {"ACTIVE", "ON_MISSION"}
       /\ MOCK_VEHICLES[v].x + ticks * d.moveX > MapMax
       /\ vehicles[v].x = MapMax
  /\ \E v \in VehicleIds, d \in DispatchDraws :
       /\ vehicles[v].status \in {"ACTIVE", "ON_MISSION"}
       /\ MOCK_VEHICLES[v].y + ticks * d.moveY < 0
       /\ vehicles[v].y = 0


C35_EtaRunsOut ==
  /\ \A v \in VehicleIds :
       (vehicles[v].status = "ON_MISSION" /\ vehicles[v].etaMinutes > 0)
       ~> (vehicles[v].status # "ON_MISSION" \/ vehicles[v].etaMinutes = 0)
  /\ [][lastOp'.op = "tick" =>
         \A v \in VehicleIds :
           /\ (vehicles[v].status = "ON_MISSION" /\ OrZero(vehicles[v].etaMinutes) = 0)
              => vehicles'[v].etaMinutes = 0
           /\ (vehicles[v].etaMinutes > 0 /\ vehicles'[v].etaMinutes = 0)
              => /\ vehicles'[v].status = vehicles[v].status
                 /\ trips' = trips]_vars

\* The ETA of the mission the fleet starts with and the ETA of a vehicle
\* dispatched during the run have both run out; both vehicles are still
\* ON_MISSION and the first trip is still IN_PROGRESS.
C35_Witness ==
  /\ lastOp.op = "tick"
  /\ vehicles["v1"].status = "ON_MISSION"
  /\ vehicles["v1"].etaMinutes = 0
  /\ \E v \in VehicleIds \ {"v1"} :
       /\ vehicles[v].status = "ON_MISSION"
       /\ vehicles[v].etaMinutes = 0
  /\ \E i \in DOMAIN trips :
       trips[i].id = <<"t", 101>> /\ trips[i].status = "IN_PROGRESS"


\* No two entries of a list carry the same id.
UniqueIds(list) ==
  \A i, j \in DOMAIN list : i # j => list[i].id # list[j].id

\* C36: after any sequence of operations no two trips, no two incidents, no
\* two incoming requests and no two audit entries of the store share an id,
\* also when two of them were created within one reading of the clock.
C36_IdsStayUnique ==
  /\ UniqueIds(trips)
  /\ UniqueIds(incidents)
  /\ UniqueIds(incomingRequests)
  /\ UniqueIds(auditLogs)


\* C37: in every state of the AuthProvider isAuthenticated holds exactly when
\* user is set and exactly when sessionToken is set; isLockedOut holds exactly
\* when lockoutExpires is set and exactly when loginAttempts is at least 5;
\* and a login that succeeds, and a logout, leave loginAttempts at 0 and no
\* lockout.
C37_AuthStateConsistent ==
  /\ [](/\ authState.isAuthenticated <=> authState.user # NoUser
        /\ authState.isAuthenticated <=> authState.sessionToken # NoToken
        /\ authState.isLockedOut <=> authState.lockoutExpires # 0
        /\ authState.isLockedOut <=> authState.loginAttempts >= MAX_LOGIN_ATTEMPTS)
  /\ [][(\/ lastOp'.op = "logout"
         \/ lastOp'.op = "login" /\ result'.value)
        => /\ authState'.loginAttempts = 0
           /\ ~authState'.isLockedOut
           /\ authState'.lockoutExpires = 0]_vars

\* A login has succeeded with the attempt counter one short of the lockout.
C37_Witness ==
  /\ lastOp.op = "login"
  /\ lastOp.valid
  /\ lastOp.attemptsWas = MAX_LOGIN_ATTEMPTS - 1
  /\ result = [kind |-> "login", value |-> TRUE]
  /\ authState.isAuthenticated
  /\ authState.loginAttempts = 0


\* C38: recordAttempt(key) returns allowed = true exactly when
\* isRateLimited(key) was false just before the call, and the remaining it
\* returns is maxAttempts less the attempts recorded in the current window,
\* and 0 when that is negative.
C38_LimiterAgrees ==
  [][lastOp'.op = "recordAttempt" =>
       /\ result'.allowed <=> ~isRateLimited(lastOp'.key)
       /\ result'.remaining = Max(0, maxAttempts - attempts'[lastOp'.key].count)]_vars


\* The events the server writes back to the socket whose handler ran.
ServerReplies == {"auth_required", "auth_error", "state_sync"}
\* The socket is in the clients map with a user id.
InClients(s) == \E i \in DOMAIN clients : clients[i].id = s /\ clients[i].userId # Empty
UserOf(s) == clients[CHOOSE i \in DOMAIN clients : clients[i].id = s].userId

\* C39: an event (subscribe, unsubscribe, vehicle_telemetry, incident_report,
\* trip_update, share_location, chat_message) of a socket that has not
\* completed authentication changes neither map of the server and is written
\* to no client: the socket gets auth_required and nothing else is emitted.  A
\* chat_message or share_location that names another user than the one the
\* socket authenticated as is written to no client either.  Whatever is
\* delivered comes from an authenticated socket and names its user.
C39_UnauthenticatedEventsDropped ==
  [][lastOp'.op = "event" =>
       LET s == lastOp'.socket
       IN /\ ~InClients(s)
             => /\ clients' = clients
                /\ vehicleUpdates' = vehicleUpdates
                /\ emitted' = {Msg(s, "auth_required", s, Empty)}
          /\ (/\ InClients(s)
              /\ lastOp'.name \in {"chat_message", "share_location"}
              /\ lastOp'.claimed # UserOf(s))
             => /\ clients' = clients
                /\ vehicleUpdates' = vehicleUpdates
                /\ emitted' = {Msg(s, "auth_error", s, Empty)}
          /\ \A m \in emitted' :
               m.event \notin ServerReplies
               => /\ m.from = s
                  /\ InClients(s)
                  /\ m.event \in {"chat_message", "user_location"}
                     => m.claimed = UserOf(s)]_vars

\* A socket that is connected and not in the clients map has sent a
\* chat_message to the general channel while another socket was in the map
\* and subscribed to it: the sender got auth_required and that is all.
C39_Witness ==
  /\ lastOp.op = "event"
  /\ lastOp.name = "chat_message"
  /\ sockets[lastOp.socket].state = "connected"
  /\ ~InClients(lastOp.socket)
  /\ \E i \in DOMAIN clients :
       /\ clients[i].id # lastOp.socket
       /\ "general" \in clients[i].subscriptions
       /\ sockets[clients[i].id].state = "connected"
  /\ emitted = {Msg(lastOp.socket, "auth_required", lastOp.socket, Empty)}


\* C40: under every interleaving of the authenticate handler, the
\* authentication timeout and the disconnect event, the clients map holds
\* only sockets that are connected and authenticated: a socket that has been
\* disconnected is not in the map.
C40_ClientsAreConnected ==
  \A i \in DOMAIN clients :
    /\ sockets[clients[i].id].state = "connected"
    /\ clients[i].userId # Empty

====
